---- MODULE Spec2Model ----
(***************************************************************************)
(* A model of scholar_source's backend: the config-sensitive course cache  *)
(* (backend/cache.py) and the job execution that calls it                  *)
(* (backend/crew_runner.py, backend/tasks.py).                             *)
(*                                                                         *)
(* Python strings are sequences of one-character strings, so that split,   *)
(* strip, sort and join are computed as the code computes them.  SHA-256   *)
(* is modelled as an injective function of the bytes fed to it (Sha256).   *)
(* Time is counted in whole days.                                          *)
(***************************************************************************)
EXTENDS Integers, Sequences, FiniteSets, TLC

VARIABLES
    agentsDoc,   \* agents.yaml: whether it exists, and its bytes
    tasksDoc,    \* tasks.yaml: whether it exists, and its bytes
    now,         \* datetime.utcnow(), in days
    store,       \* the rows of the course_cache table
    call,        \* per caller: the frame of its get/set_cached_analysis call
    putLog,      \* history: per cache_key, the cache_data last upserted
    budget,      \* history: how many calls and environment events so far
    jobs,        \* the rows of the jobs table, by job id
    worker,      \* per job: the frame of the worker that executes it
    maint,       \* the frames of the purge call and of the stats call
    probe,       \* two computations of a key or fingerprint, side by side
    api,         \* per job: the responses of the submit and cancel endpoints
    md,          \* one call of a function of the markdown parser
    report,      \* the file report.md in the working directory of the workers
    ttl          \* the TTLs in days, as cache.py read them from the environment

vars ==
    <<agentsDoc, tasksDoc, now, store, call, putLog, budget, jobs, worker, maint, probe,
      api, md, report, ttl>>

(***************************************************************************)
(* Bounds of the model.                                                    *)
(***************************************************************************)
MaxCalls == 2    \* cache calls started
MaxEvents == 2   \* clock ticks, config edits and storage errors

\* Two concurrent callers (threads or worker processes).
Callers == {1, 2}

(***************************************************************************)
(* Python values.                                                          *)
(***************************************************************************)
None == "None"          \* Python's None

\* A config file: absent, or present with these bytes.
NotFound == [exists |-> FALSE, bytes |-> <<>>]
File(bytes) == [exists |-> TRUE, bytes |-> bytes]

\* String literals of the source, as character sequences.
S_course == <<"c","o","u","r","s","e",":">>
S_book_url == <<"b","o","o","k","_","u","r","l",":">>
S_book == <<"b","o","o","k",":">>
S_isbn == <<"i","s","b","n",":">>
S_topics == <<"t","o","p","i","c","s",":">>
S_resources == <<"r","e","s","o","u","r","c","e","s",":">>
S_config == <<"c","o","n","f","i","g",":">>
S_analysis == <<"a","n","a","l","y","s","i","s">>
S_full == <<"f","u","l","l">>
S_agents_not_found ==
    <<"a","g","e","n","t","s",".","y","a","m","l","_","n","o","t","_","f","o","u","n","d">>
S_tasks_not_found ==
    <<"t","a","s","k","s",".","y","a","m","l","_","n","o","t","_","f","o","u","n","d">>

\* Code points of the characters the model's inputs use (Python compares
\* strings by code point).
CodePoint(c) ==
    CASE c = " " -> 32
      [] c = "," -> 44
      [] c = "." -> 46
      [] c = "\t" -> 9
      [] c = ":" -> 58
      [] c = "_" -> 95
      [] c = "a" -> 97
      [] c = "b" -> 98
      [] c = "c" -> 99
      [] c = "u" -> 117
      [] c = "v" -> 118
      [] c = "|" -> 124
      [] OTHER -> 127

Whitespace == {" ", "\t", "\n"}

\* str.strip()
RECURSIVE LStrip(_)
LStrip(s) ==
    IF s # <<>> /\ Head(s) \in Whitespace THEN LStrip(Tail(s)) ELSE s

RECURSIVE RStrip(_)
RStrip(s) ==
    IF s # <<>> /\ s[Len(s)] \in Whitespace
    THEN RStrip(SubSeq(s, 1, Len(s) - 1))
    ELSE s

Strip(s) == RStrip(LStrip(s))

\* str.split(sep) for a one-character separator: always at least one piece.
RECURSIVE SplitAcc(_, _, _)
SplitAcc(s, sep, cur) ==
    IF s = <<>> THEN <<cur>>
    ELSE IF Head(s) = sep THEN <<cur>> \o SplitAcc(Tail(s), sep, <<>>)
    ELSE SplitAcc(Tail(s), sep, Append(cur, Head(s)))

Split(s, sep) == SplitAcc(s, sep, <<>>)

\* sep.join(parts)
RECURSIVE Join(_, _)
Join(parts, sep) ==
    IF parts = <<>> THEN <<>>
    ELSE IF Len(parts) = 1 THEN parts[1]
    ELSE parts[1] \o sep \o Join(Tail(parts), sep)

\* Python's str < str
RECURSIVE StrLess(_, _)
StrLess(a, b) ==
    IF b = <<>> THEN FALSE
    ELSE IF a = <<>> THEN TRUE
    ELSE IF Head(a) = Head(b) THEN StrLess(Tail(a), Tail(b))
    ELSE CodePoint(Head(a)) < CodePoint(Head(b))

\* sorted(list of str)
RECURSIVE Insert(_, _)
Insert(x, sorted) ==
    IF sorted = <<>> THEN <<x>>
    ELSE IF StrLess(x, Head(sorted)) THEN <<x>> \o sorted
    ELSE <<Head(sorted)>> \o Insert(x, Tail(sorted))

Sorted_AsGiven(xs) == xs

RECURSIVE Sorted(_)
Sorted(xs) ==
    IF xs = <<>> THEN <<>> ELSE Insert(Head(xs), Sorted(Tail(xs)))

\* [x.strip() for x in xs if x.strip()]
RECURSIVE StripNonEmpty(_)
StripNonEmpty(xs) ==
    IF xs = <<>> THEN <<>>
    ELSE IF Strip(Head(xs)) # <<>>
         THEN <<Strip(Head(xs))>> \o StripNonEmpty(Tail(xs))
         ELSE StripNonEmpty(Tail(xs))

\* hashlib.sha256(bytes).hexdigest(): the digest of the bytes fed to it, taken
\* as collision-free.
Sha256(bytes) == <<"#">> \o bytes

(***************************************************************************)
(* backend/cache.py: fingerprint and key.                                  *)
(***************************************************************************)
COURSE_ANALYSIS_TTL_DAYS == 30
RESOURCE_RESULTS_TTL_DAYS == 7

\* _compute_config_hash over the two documents as they are now.
ConfigHashOf(agents, tasks) ==
    Sha256((IF agents.exists THEN agents.bytes ELSE S_agents_not_found)
           \o (IF tasks.exists THEN tasks.bytes ELSE S_tasks_not_found))

_compute_config_hash == ConfigHashOf(agentsDoc, tasksDoc)

\* The key_parts of _generate_cache_key, before the config part.
InputKeyParts(inputs) ==
    (IF inputs.course_url # <<>> THEN <<S_course \o inputs.course_url>> ELSE <<>>)
    \o (IF inputs.book_url # <<>> THEN <<S_book_url \o inputs.book_url>> ELSE <<>>)
    \o (IF inputs.book_title # <<>> /\ inputs.book_author # <<>>
        THEN <<S_book \o inputs.book_title \o <<"|">> \o inputs.book_author>>
        ELSE <<>>)
    \o (IF inputs.isbn # <<>> THEN <<S_isbn \o inputs.isbn>> ELSE <<>>)
    \o (IF inputs.topics_list # <<>>
        THEN <<S_topics
               \o Join(Sorted(StripNonEmpty(Split(inputs.topics_list, ","))), <<",">>)>>
        ELSE <<>>)
    \o (IF inputs.desired_resource_types # <<>>
           /\ StripNonEmpty(inputs.desired_resource_types) # <<>>
        THEN <<S_resources
               \o Join(Sorted(StripNonEmpty(inputs.desired_resource_types)), <<",">>)>>
        ELSE <<>>)

KeyString_NoConfig(inputs, config_hash) ==
    Join(InputKeyParts(inputs) \o <<S_config>>, <<"|">>)

\* The string _generate_cache_key hashes.
KeyString(inputs, config_hash) ==
    Join(InputKeyParts(inputs) \o <<S_config \o config_hash>>, <<"|">>)

_generate_cache_key_InputsOnly(inputs, config_hash) ==
    Sha256(Join(InputKeyParts(inputs), <<"|">>))

_generate_cache_key(inputs, config_hash) == Sha256(KeyString(inputs, config_hash))

CacheTypes == {S_analysis, S_full}

PrefixedKey_NoType(cache_type, cache_key_base) == cache_key_base

\* cache_key = f"{cache_type}:{cache_key_base}"
PrefixedKey(cache_type, cache_key_base) == cache_type \o <<":">> \o cache_key_base

CacheKey(inputs, cache_type, config_hash) ==
    PrefixedKey(cache_type, _generate_cache_key(inputs, config_hash))

(***************************************************************************)
(* Inputs, payloads and rows.                                              *)
(***************************************************************************)
NoInputs ==
    [course_url |-> <<>>, book_url |-> <<>>, book_title |-> <<>>,
     book_author |-> <<>>, isbn |-> <<>>, topics_list |-> <<>>,
     desired_resource_types |-> <<>>, course_name |-> <<>>]

I_u == [NoInputs EXCEPT !.course_url = <<"u">>]

\* The inputs the cache operations are called with.
CacheInputs == {I_u}

\* Opaque results payloads: the n-th call of the run stores PayloadOf(n), so
\* that a row's results name the put that wrote them.
PayloadOf(n) == <<"R1", "R2", "R3", "R4", "R5", "R6">>[n]

\* The config documents a deployment may hold.
AgentDocs == {File(<<"a">>)}
TaskDocs == {NotFound, File(<<"b">>)}

\* datetime.isoformat() of a naive UTC time; rows written by other tools may
\* carry a "Z" or "+00:00" suffix.
Isoformat(t) == [t |-> t, tz |-> ""]

\* datetime.fromisoformat(s.replace('Z', '+00:00')) with tzinfo dropped.
ParseCachedAt(s) == s.t

InitialHash == ConfigHashOf(File(<<"a">>), File(<<"b">>))
S_old_hash == <<"o","l","d">>

\* A row of course_cache.  cols names the columns the row has; a column it
\* lacks reads as absent (KeyError on row[col], None on row.get(col)).
AllCols == {"cache_key", "config_hash", "cache_type", "inputs", "results", "cached_at"}

Row(cache_key, config_hash, cache_type, inputs, results, cached_at, cols) ==
    [cache_key |-> cache_key, config_hash |-> config_hash, cache_type |-> cache_type,
     inputs |-> inputs, results |-> results, cached_at |-> cached_at, cols |-> cols]

NoRow == Row(<<>>, <<>>, <<>>, NoInputs, None, [t |-> 0, tz |-> ""], {})

\* Rows the table may hold before any call of this process: one written by an
\* earlier run, and rows that are stale or malformed.
PreRows ==
    { Row(CacheKey(I_u, S_full, InitialHash), InitialHash, S_full, I_u, "R0",
          [t |-> 0, tz |-> "Z"], AllCols),
      Row(CacheKey(I_u, S_analysis, InitialHash), S_old_hash, S_analysis, I_u, "R0",
          [t |-> 0, tz |-> "+00:00"], AllCols),
      Row(CacheKey(I_u, S_analysis, InitialHash), <<>>, <<>>, NoInputs, None,
          [t |-> 0, tz |-> ""], {"cache_key"}),
      Row(CacheKey(I_u, S_analysis, InitialHash), InitialHash, S_analysis, I_u, None,
          [t |-> 0, tz |-> ""], AllCols \ {"results"}),
      Row(CacheKey(I_u, S_full, InitialHash), <<>>, S_full, I_u, "R0",
          [t |-> 0, tz |-> ""], AllCols \ {"config_hash"}) }

(***************************************************************************)
(* The course_cache table (Supabase): select, delete and upsert by key.    *)
(***************************************************************************)
SelectEq(table, cache_key) == {r \in table : r.cache_key = cache_key}

DeleteEq_Neq(table, cache_key) == {r \in table : r.cache_key = cache_key}

\* delete().eq("cache_key", cache_key)
DeleteEq(table, cache_key) == {r \in table : r.cache_key # cache_key}

Upsert_InsertOnly(table, row) == table \cup {row}

\* upsert(cache_data, on_conflict="cache_key")
Upsert(table, row) == {r \in table : r.cache_key # row.cache_key} \cup {row}

(***************************************************************************)
(* Call frames of get_cached_analysis / set_cached_analysis.               *)
(***************************************************************************)
IdleFrame ==
    [op |-> "none", pc |-> "idle", inputs |-> NoInputs, cache_type |-> <<>>,
     force_refresh |-> FALSE, results |-> None, config_hash |-> <<>>,
     cache_key |-> <<>>, entry |-> NoRow, ret |-> None, outcome |-> "none",
     failed |-> FALSE, touched |-> FALSE, path |-> "none", expect |-> {}, stale |-> {},
     t |-> 0]

\* A row of the jobs table as create_job leaves it.
NewJob == [status |-> "pending", error |-> None, results |-> None,
           completed_at |-> None, cause |-> "none"]

\* report.md: the job whose pipeline wrote it last and what it wrote.  No
\* pipeline has written it yet.
NoReport == [by |-> 0, kind |-> "none"]

\* A worker that has not been given its job yet.  output is what its pipeline
\* returned (result.raw), markdown_content what it read to parse, outcome how
\* the worker function ended ("returned" or "raised").
IdleWorker ==
    [runner |-> "none", pc |-> "idle", bypass |-> FALSE, cached |-> None,
     crew |-> 0, task |-> "none", output |-> "none", markdown_content |-> NoReport,
     retries |-> 0, exc |-> "none", msg |-> "", outcome |-> "none"]

\* The frame of clear_cache_for_config_change / get_cache_stats: its locals
\* (config_hash, the listed keys, the counts), what it returned, the table and
\* put history as they were when it was called (for stats: the table as the
\* first count saw it), whether the table moved between the two counts, and
\* how many rows the deletes of the call removed from the table.
IdleMaint ==
    [pc |-> "idle", config_hash |-> <<>>, listing |-> {}, deleted_count |-> 0,
     total |-> 0, valid |-> 0, ret |-> [kind |-> "none"], failed |-> FALSE,
     wrote |-> FALSE, snap |-> {}, plog |-> {}, moved |-> FALSE, removed |-> 0]

\* Two calls of _generate_cache_key (inputs a with config hash ha, inputs b
\* with hb) and of _compute_config_hash (documents da, db), and their results.
IdleProbe ==
    [pc |-> "idle", kind |-> "none", a |-> NoInputs, b |-> NoInputs,
     ha |-> <<>>, hb |-> <<>>, da |-> <<NotFound, NotFound>>, db |-> <<NotFound, NotFound>>,
     ka |-> <<>>, kb |-> <<>>, sa |-> <<>>, sb |-> <<>>, fa |-> <<>>, fb |-> <<>>]

\* The identifying fields of a submit request (CourseInputRequest).
RequestFields ==
    {"course_name", "university_name", "course_url", "book_title", "book_author",
     "isbn", "book_pdf_path", "book_url"}

\* A request with no field given.  A field not given (None) is <<>>.
NoRequest == [f \in RequestFields |-> <<>>]

\* The Origin and Referer headers of a request; a header not sent is <<>>.
NoHeaders == [origin |-> <<>>, referer |-> <<>>]

\* What the endpoints have answered for a job slot: whether submit_job created
\* the job row, the HTTP status of the submit and of the last cancel (0: no
\* request yet), the status the submit reported and the final status that made
\* the last cancel refuse ("none" when it did not refuse for that).  Next to
\* the slots: the last submit that was validated (last), and the headers and
\* the HTTP status of the most recent POST (post).
IdleApi ==
    [created |-> FALSE, submit |-> 0, reported |-> "none", cancel |-> 0, found |-> "none"]

\* The TTLs when the environment does not set them.
DefaultTtl ==
    [course_analysis |-> COURSE_ANALYSIS_TTL_DAYS, resource_results |-> RESOURCE_RESULTS_TTL_DAYS]

\* Everything but the TTL configuration.
InitProcess ==
    /\ agentsDoc = File(<<"a">>)
    /\ tasksDoc = File(<<"b">>)
    /\ now = 0
    /\ store \in {{}} \cup {{r} : r \in PreRows}
    /\ call = [c \in Callers |-> IdleFrame]
    /\ putLog = {}
    /\ budget = [calls |-> 0, events |-> 0]
    /\ jobs = [j \in Callers |-> NewJob]
    /\ worker = [j \in Callers |-> IdleWorker]
    /\ maint = [m \in {"purge", "stats"} |-> IdleMaint]
    /\ probe = IdleProbe
    /\ api = [of |-> [j \in Callers |-> IdleApi], last |-> [job |-> 0, req |-> NoRequest],
              post |-> [headers |-> NoHeaders, code |-> 0]]
    /\ md = [pc |-> "idle", op |-> "none", content |-> <<>>, excluded_sites |-> <<"None">>,
             fields |-> <<<<>>, <<>>, <<>>>>, resources |-> <<>>,
             result |-> [raised |-> FALSE, resources |-> <<>>,
                         textbook_info |-> [found |-> FALSE, title |-> <<"None">>,
                                            author |-> <<"None">>, source |-> <<"None">>]],
             flag |-> FALSE, filtered |-> <<>>]
    /\ report = NoReport

Init == InitProcess /\ ttl = DefaultTtl

\* The callers are interchangeable: a new call goes to the first free one.
Free(c) ==
    /\ call[c].pc \in {"idle", "done"}
    /\ \A d \in Callers : d < c => call[d].pc \notin {"idle", "done"}

\* The frames of calls that have returned are discarded when a call starts.
Popped == [d \in Callers |-> IF call[d].pc = "done" THEN IdleFrame ELSE call[d]]

ForceRefresh_Ignored(force_refresh) == FALSE

\* "if force_refresh: return None"
ForceRefresh(force_refresh) == force_refresh

OnException_Raise(frame) ==
    [frame EXCEPT !.pc = "done", !.ret = None, !.outcome = "raised", !.failed = TRUE]

\* "except Exception as e: print(...); return None"
OnException(frame) ==
    [frame EXCEPT !.pc = "done", !.ret = None, !.outcome = "returned", !.failed = TRUE]

Expired_AtTtl(age, ttl_days) == age >= ttl_days

\* "age > timedelta(days=ttl_days)"
Expired(age, ttl_days) == age > ttl_days

TtlDays_OneTtl(cache_type) == ttl.resource_results

\* "ttl_days = COURSE_ANALYSIS_TTL_DAYS if cache_type == "analysis" else
\* RESOURCE_RESULTS_TTL_DAYS"
TtlDays(cache_type) ==
    IF cache_type = S_analysis THEN ttl.course_analysis ELSE ttl.resource_results

ConfigHashDiffers_Never(entry, current_config_hash) == FALSE

\* cache_entry.get("config_hash") != current_config_hash
ConfigHashDiffers(entry, current_config_hash) ==
    "config_hash" \notin entry.cols \/ entry.config_hash # current_config_hash

\* cache_entry.get("results")
Returned(entry) == IF "results" \in entry.cols THEN entry.results ELSE None

\* The frame of a call get_cached_analysis(inputs, cache_type, force_refresh).
StartGet(inputs, cache_type, force_refresh) ==
    IF ForceRefresh(force_refresh)
    THEN [IdleFrame EXCEPT !.op = "get", !.pc = "done", !.inputs = inputs,
            !.cache_type = cache_type, !.force_refresh = force_refresh,
            !.ret = None, !.outcome = "returned", !.path = "bypass"]
    ELSE [IdleFrame EXCEPT !.op = "get", !.pc = "begin", !.inputs = inputs,
            !.cache_type = cache_type, !.force_refresh = force_refresh]

\* The frame of a call set_cached_analysis(inputs, results, cache_type).
StartSet(inputs, results, cache_type) ==
    [IdleFrame EXCEPT !.op = "set", !.pc = "begin", !.inputs = inputs,
                      !.cache_type = cache_type, !.results = results]

\* get_cached_analysis(inputs, cache_type, force_refresh) is called.
CallGet(c, inputs, cache_type, force_refresh) ==
    /\ Free(c)
    /\ budget.calls < MaxCalls
    /\ budget' = [budget EXCEPT !.calls = @ + 1]
    /\ call' = [Popped EXCEPT ![c] = StartGet(inputs, cache_type, force_refresh)]
    /\ UNCHANGED <<ttl, report, md, api, probe, maint, agentsDoc, tasksDoc, now, store, putLog, jobs, worker>>

\* get_supabase_client(), _compute_config_hash(), cache_key
GetBegin(c) ==
    /\ call[c].op = "get" /\ call[c].pc = "begin"
    /\ call' = [call EXCEPT ![c] =
            [@ EXCEPT !.pc = "select", !.touched = TRUE,
                      !.config_hash = _compute_config_hash,
                      !.cache_key = CacheKey(call[c].inputs, call[c].cache_type, _compute_config_hash)]]
    /\ UNCHANGED <<ttl, report, md, api, probe, maint, agentsDoc, tasksDoc, now, store, putLog, budget, jobs, worker>>

\* The rows a put for the same inputs, type and fingerprint has left in the table.
PutRowsFor(frame, table) ==
    {r \in table \cap putLog :
        /\ r.inputs = frame.inputs
        /\ r.cache_type = frame.cache_type
        /\ r.config_hash = frame.config_hash}

\* The rows a put for the same inputs and type has left under another fingerprint.
StaleRowsFor(frame, table) ==
    {r \in table \cap putLog :
        /\ r.inputs = frame.inputs
        /\ r.cache_type = frame.cache_type
        /\ r.config_hash # frame.config_hash}

\* select("*").eq("cache_key", cache_key); "if not response.data: return None"
GetSelect(c) ==
    /\ call[c].op = "get" /\ call[c].pc = "select"
    /\ LET data == SelectEq(store, call[c].cache_key)
           seen == [call[c] EXCEPT !.expect = PutRowsFor(call[c], store),
                                   !.stale = StaleRowsFor(call[c], store), !.t = now]
       IN  IF data = {}
           THEN call' = [call EXCEPT ![c] =
                    [seen EXCEPT !.pc = "done", !.ret = None, !.outcome = "returned",
                                 !.path = "miss"]]
           ELSE \E r \in data :
                    call' = [call EXCEPT ![c] = [seen EXCEPT !.pc = "check", !.entry = r]]
    /\ UNCHANGED <<ttl, report, md, api, probe, maint, agentsDoc, tasksDoc, now, store, putLog, budget, jobs, worker>>

\* The expiry check, the config-hash check and the return of the results.
GetCheck(c) ==
    /\ call[c].op = "get" /\ call[c].pc = "check"
    /\ LET f == [call[c] EXCEPT !.t = now]
           ttl_days == TtlDays(f.cache_type)
       IN  call' = [call EXCEPT ![c] =
             IF ttl_days # 0 /\ "cached_at" \notin f.entry.cols
             THEN [OnException(f) EXCEPT !.path = "malformed"]
             ELSE IF ttl_days # 0 /\ Expired(now - ParseCachedAt(f.entry.cached_at), ttl_days)
             THEN [f EXCEPT !.pc = "delete", !.path = "expired"]
             ELSE IF ConfigHashDiffers(f.entry, f.config_hash)
             THEN [f EXCEPT !.pc = "delete", !.path = "stale"]
             ELSE [f EXCEPT !.pc = "done", !.ret = Returned(f.entry),
                            !.outcome = "returned", !.path = "hit"]]
    /\ UNCHANGED <<ttl, report, md, api, probe, maint, agentsDoc, tasksDoc, now, store, putLog, budget, jobs, worker>>

\* delete().eq("cache_key", cache_key); return None
GetDelete(c) ==
    /\ call[c].op = "get" /\ call[c].pc = "delete"
    /\ store' = DeleteEq(store, call[c].cache_key)
    /\ call' = [call EXCEPT ![c] = [@ EXCEPT !.pc = "done", !.ret = None,
                                              !.outcome = "returned"]]
    /\ UNCHANGED <<ttl, report, md, api, probe, maint, agentsDoc, tasksDoc, now, putLog, budget, jobs, worker>>

\* set_cached_analysis(inputs, results, cache_type) is called.
CallSet(c, inputs, cache_type) ==
    /\ Free(c)
    /\ budget.calls < MaxCalls
    /\ budget' = [budget EXCEPT !.calls = @ + 1]
    /\ call' = [Popped EXCEPT ![c] =
            StartSet(inputs, PayloadOf(budget.calls + 1), cache_type)]
    /\ UNCHANGED <<ttl, report, md, api, probe, maint, agentsDoc, tasksDoc, now, store, putLog, jobs, worker>>

\* The cache_data dict of set_cached_analysis.
CacheData(inputs, results, cache_type, current_config_hash, utcnow) ==
    Row(CacheKey(inputs, cache_type, current_config_hash), current_config_hash,
        cache_type, inputs, results, Isoformat(utcnow), AllCols)

\* get_supabase_client(), _compute_config_hash(), cache_key, cache_data
SetBegin(c) ==
    /\ call[c].op = "set" /\ call[c].pc = "begin"
    /\ call' = [call EXCEPT ![c] =
            [@ EXCEPT !.pc = "upsert", !.touched = TRUE,
                      !.config_hash = _compute_config_hash,
                      !.cache_key = CacheKey(call[c].inputs, call[c].cache_type, _compute_config_hash),
                      !.entry = CacheData(call[c].inputs, call[c].results, call[c].cache_type,
                                          _compute_config_hash, now)]]
    /\ UNCHANGED <<ttl, report, md, api, probe, maint, agentsDoc, tasksDoc, now, store, putLog, budget, jobs, worker>>

\* upsert(cache_data, on_conflict="cache_key").execute()
SetUpsert(c) ==
    /\ call[c].op = "set" /\ call[c].pc = "upsert"
    /\ store' = Upsert(store, call[c].entry)
    /\ putLog' = {r \in putLog : r.cache_key # call[c].entry.cache_key} \cup {call[c].entry}
    /\ call' = [call EXCEPT ![c] = [@ EXCEPT !.pc = "done", !.ret = None,
                                              !.outcome = "returned"]]
    /\ UNCHANGED <<ttl, report, md, api, probe, maint, agentsDoc, tasksDoc, now, budget, jobs, worker>>

\* A storage call (client creation, select, delete, upsert) raises.
StorageError(c) ==
    /\ call[c].pc \in {"begin", "select", "delete", "upsert"}
    /\ budget.events < MaxEvents
    /\ budget' = [budget EXCEPT !.events = @ + 1]
    /\ call' = [call EXCEPT ![c] = OnException(@)]
    /\ UNCHANGED <<ttl, report, md, api, probe, maint, agentsDoc, tasksDoc, now, store, putLog, jobs, worker>>

(***************************************************************************)
(* The environment: time passes, the config documents are edited.          *)
(***************************************************************************)
TickDays == {7, 24}

Tick(d) ==
    /\ budget.events < MaxEvents
    /\ budget' = [budget EXCEPT !.events = @ + 1]
    /\ now' = now + d
    /\ UNCHANGED <<ttl, report, md, api, probe, maint, agentsDoc, tasksDoc, store, call, putLog, jobs, worker>>

ConfigChange(agents, tasks) ==
    /\ budget.events < MaxEvents
    /\ <<agents, tasks>> # <<agentsDoc, tasksDoc>>
    /\ budget' = [budget EXCEPT !.events = @ + 1]
    /\ agentsDoc' = agents
    /\ tasksDoc' = tasks
    /\ UNCHANGED <<ttl, report, md, api, probe, maint, now, store, call, putLog, jobs, worker>>

NextCache ==
    \/ \E c \in Callers, i \in CacheInputs, ct \in CacheTypes, f \in BOOLEAN :
            CallGet(c, i, ct, f)
    \/ \E c \in Callers, i \in CacheInputs, ct \in CacheTypes : CallSet(c, i, ct)
    \/ \E c \in Callers : GetBegin(c)
    \/ \E c \in Callers : GetSelect(c)
    \/ \E c \in Callers : GetCheck(c)
    \/ \E c \in Callers : GetDelete(c)
    \/ \E c \in Callers : SetBegin(c)
    \/ \E c \in Callers : SetUpsert(c)
    \/ \E c \in Callers : StorageError(c)
    \/ \E d \in TickDays : Tick(d)
    \/ \E a \in AgentDocs, t \in TaskDocs : ConfigChange(a, t)

Spec == Init /\ [][NextCache]_vars

(***************************************************************************)
(* backend/cache.py: clear_cache_for_config_change and get_cache_stats.    *)
(***************************************************************************)
\* What a maintenance call returns: the deleted count, the stats dict, or the
\* error dict of get_cache_stats.
MaintRet(kind, count, total, valid, config_hash) ==
    [kind |-> kind, count |-> count, total_entries |-> total, valid_entries |-> valid,
     stale_entries |-> total - valid, config_hash |-> config_hash]

\* The rows that have a config_hash column.
WithHash(table) == {r \in table : "config_hash" \in r.cols}

ListNeq_Eq(table, config_hash) ==
    {r \in WithHash(table) : r.config_hash = config_hash}

\* select("cache_key").neq("config_hash", current_config_hash): the rows the
\* filter is sure to list.  Whether it lists a row that has no config_hash is
\* the table's choice (see PurgeSelect).
ListNeq(table, config_hash) ==
    {r \in WithHash(table) : r.config_hash # config_hash}

\* select("cache_key", count="exact").eq("config_hash", current_config_hash)
CountEq(table, config_hash) ==
    Cardinality({r \in WithHash(table) : r.config_hash = config_hash})

CountAll_Zero(table) == 0

\* select("cache_key", count="exact")
CountAll(table) == Cardinality(table)

\* clear_cache_for_config_change() / get_cache_stats() is called.
CallMaint(m) ==
    /\ maint[m].pc \in {"idle", "done"}
    /\ budget.calls < MaxCalls
    /\ budget' = [budget EXCEPT !.calls = @ + 1]
    /\ maint' = [maint EXCEPT ![m] =
            [IdleMaint EXCEPT !.pc = "begin", !.snap = store, !.plog = putLog]]
    /\ UNCHANGED <<ttl, report, md, api, probe, agentsDoc, tasksDoc, now, store, call, putLog, jobs, worker>>

\* get_supabase_client(); current_config_hash = _compute_config_hash()
MaintBegin(m) ==
    /\ maint[m].pc = "begin"
    /\ maint' = [maint EXCEPT ![m].pc = IF m = "purge" THEN "select" ELSE "total",
                              ![m].config_hash = _compute_config_hash]
    /\ UNCHANGED <<ttl, report, md, api, probe, agentsDoc, tasksDoc, now, store, call, putLog, budget, jobs, worker>>

\* response = ...select("cache_key").neq("config_hash", current_config_hash)
PurgeSelect ==
    /\ maint["purge"].pc = "select"
    /\ \E extra \in SUBSET (store \ WithHash(store)) :
            maint' = [maint EXCEPT !["purge"].pc = "delete",
                !["purge"].listing =
                    {r.cache_key : r \in ListNeq(store, maint["purge"].config_hash) \cup extra}]
    /\ UNCHANGED <<ttl, report, md, api, probe, agentsDoc, tasksDoc, now, store, call, putLog, budget, jobs, worker>>

\* "for entry in response.data: ...delete().eq("cache_key", entry["cache_key"])
\*  ...; deleted_count += 1"
PurgeDelete ==
    /\ maint["purge"].pc = "delete"
    /\ \E k \in maint["purge"].listing :
        /\ store' = DeleteEq(store, k)
        /\ maint' = [maint EXCEPT !["purge"].listing = @ \ {k},
                                  !["purge"].deleted_count = @ + 1,
                                  !["purge"].removed =
                                        @ + Cardinality(store \ DeleteEq(store, k)),
                                  !["purge"].wrote = TRUE]
    /\ UNCHANGED <<ttl, report, md, api, probe, agentsDoc, tasksDoc, now, call, putLog, budget, jobs, worker>>

\* return deleted_count
PurgeReturn ==
    /\ maint["purge"].pc = "delete"
    /\ maint["purge"].listing = {}
    /\ maint' = [maint EXCEPT !["purge"].pc = "done",
            !["purge"].ret = MaintRet("count", maint["purge"].deleted_count, 0, 0, <<>>)]
    /\ UNCHANGED <<ttl, report, md, api, probe, agentsDoc, tasksDoc, now, store, call, putLog, budget, jobs, worker>>

\* total_response = ...select("cache_key", count="exact").execute()
StatsTotal ==
    /\ maint["stats"].pc = "total"
    /\ maint' = [maint EXCEPT !["stats"].pc = "valid", !["stats"].total = CountAll(store),
                              !["stats"].snap = store]
    /\ UNCHANGED <<ttl, report, md, api, probe, agentsDoc, tasksDoc, now, store, call, putLog, budget, jobs, worker>>

\* valid_response = ...eq("config_hash", current_config_hash).execute(); return {...}
StatsValid ==
    /\ maint["stats"].pc = "valid"
    /\ LET v == CountEq(store, maint["stats"].config_hash) IN
       maint' = [maint EXCEPT !["stats"].pc = "done", !["stats"].valid = v,
            !["stats"].moved = (store # maint["stats"].snap),
            !["stats"].ret = MaintRet("stats", 0, maint["stats"].total, v,
                                      maint["stats"].config_hash)]
    /\ UNCHANGED <<ttl, report, md, api, probe, agentsDoc, tasksDoc, now, store, call, putLog, budget, jobs, worker>>

\* A storage call of a maintenance function raises: "except Exception" returns
\* 0 (purge) or {"error": ..., "config_hash": _compute_config_hash()} (stats).
MaintError(m) ==
    /\ maint[m].pc \in {"begin", "select", "delete", "total", "valid"}
    /\ maint[m].pc = "delete" => maint[m].listing # {}
    /\ budget.events < MaxEvents
    /\ budget' = [budget EXCEPT !.events = @ + 1]
    /\ maint' = [maint EXCEPT ![m].pc = "done", ![m].failed = TRUE,
            ![m].ret = IF m = "purge" THEN MaintRet("count", 0, 0, 0, <<>>)
                       ELSE MaintRet("error", 0, 0, 0, _compute_config_hash)]
    /\ UNCHANGED <<ttl, report, md, api, probe, agentsDoc, tasksDoc, now, store, call, putLog, jobs, worker>>

NextMaint ==
    \/ \E c \in Callers, i \in CacheInputs, ct \in CacheTypes : CallSet(c, i, ct)
    \/ \E c \in Callers : SetBegin(c)
    \/ \E c \in Callers : SetUpsert(c)
    \/ \E a \in AgentDocs, t \in TaskDocs : ConfigChange(a, t)
    \/ \E m \in {"purge", "stats"} : CallMaint(m)
    \/ \E m \in {"purge", "stats"} : MaintBegin(m)
    \/ PurgeSelect
    \/ PurgeDelete
    \/ PurgeReturn
    \/ StatsTotal
    \/ StatsValid
    \/ \E m \in {"purge", "stats"} : MaintError(m)

\* int(os.getenv('COURSE_ANALYSIS_TTL_DAYS', '30')) and
\* int(os.getenv('RESOURCE_RESULTS_TTL_DAYS', '7')): the values a deployment
\* sets; 0 means no expiration.
TtlSettings == {0, RESOURCE_RESULTS_TTL_DAYS, COURSE_ANALYSIS_TTL_DAYS}

\* The cache types a caller may name: the two the jobs use and another one.
S_other == <<"o","t","h","e","r">>
AnyCacheTypes == CacheTypes \cup {S_other}

InitTtl ==
    /\ InitProcess
    /\ store = {}
    /\ ttl \in [course_analysis : TtlSettings, resource_results : TtlSettings]

NextTtl ==
    \/ \E c \in Callers, i \in CacheInputs, ct \in AnyCacheTypes : CallGet(c, i, ct, FALSE)
    \/ \E c \in Callers, i \in CacheInputs, ct \in AnyCacheTypes : CallSet(c, i, ct)
    \/ \E c \in Callers : GetBegin(c)
    \/ \E c \in Callers : GetSelect(c)
    \/ \E c \in Callers : GetCheck(c)
    \/ \E c \in Callers : GetDelete(c)
    \/ \E c \in Callers : SetBegin(c)
    \/ \E c \in Callers : SetUpsert(c)
    \/ \E d \in TickDays : Tick(d)

\* Puts and gets of every cache type under every TTL configuration, while time
\* passes.
SpecTtl == InitTtl /\ [][NextTtl]_vars

\* Puts, config edits, purges and stats calls, interleaved.
SpecMaint == Init /\ [][NextMaint]_vars

(***************************************************************************)
(* _generate_cache_key and _compute_config_hash applied to chosen inputs.  *)
(***************************************************************************)
MaxItems == 2   \* items in a topics or resource-type list, resources in a list

\* List items: plain words and one with an inner blank.
Items == {<<"a">>, <<"b">>, <<"a", " ", "b">>}

ItemLists == UNION {[1..n -> Items] : n \in 1..MaxItems}

\* Whitespace put before and after every item of a list.
Pads == {<<>>, <<" ">>, <<"\t", " ">>}

Padded(items, l, r) == [i \in 1..Len(items) |-> l \o items[i] \o r]

Permuted(items, p) == [i \in 1..Len(items) |-> items[p[i]]]

\* Inputs with the items as the comma-separated topics_list, or as the
\* desired_resource_types list.
WithItems(field, items) ==
    IF field = "topics_list"
    THEN [I_u EXCEPT !.topics_list = Join(items, <<",">>)]
    ELSE [I_u EXCEPT !.desired_resource_types = items]

ProbeHashes == {InitialHash, S_old_hash}

\* Two input sets that differ by a permutation of one list and by the
\* whitespace around its items.
PickReordered ==
    /\ probe.pc = "idle"
    /\ \E field \in {"topics_list", "desired_resource_types"}, items \in ItemLists,
          l1, r1, l2, r2 \in Pads, h \in ProbeHashes :
        \E p \in Permutations(1..Len(items)) :
            probe' = [IdleProbe EXCEPT !.pc = "picked", !.kind = "reordered",
                        !.a = WithItems(field, Padded(items, l1, r1)),
                        !.b = WithItems(field, Padded(Permuted(items, p), l2, r2)),
                        !.ha = h, !.hb = h]
    /\ UNCHANGED <<ttl, report, md, api, agentsDoc, tasksDoc, now, store, call, putLog, budget, jobs, worker, maint>>

\* Input sets for _generate_cache_key: every identifying field alone and some
\* together.
ProbeInputs ==
    { NoInputs, I_u,
      [NoInputs EXCEPT !.book_url = <<"v">>],
      [NoInputs EXCEPT !.book_title = <<"a">>, !.book_author = <<"b">>],
      [NoInputs EXCEPT !.book_title = <<"a">>],
      [NoInputs EXCEPT !.isbn = <<"c">>],
      [I_u EXCEPT !.topics_list = <<"b", ",", "a">>],
      [I_u EXCEPT !.desired_resource_types = <<<<"b">>, <<"a">>>>],
      [I_u EXCEPT !.book_url = <<"v">>, !.isbn = <<"c">>, !.topics_list = <<"a">>] }

\* Contents of a config document: absent, empty, or a few bytes.
ProbeDocs ==
    {NotFound, File(<<>>), File(<<"a">>), File(<<"b">>), File(<<"a", "b">>),
     File(S_agents_not_found)}

\* One input set and two different config hashes.
PickTwoHashes ==
    /\ probe.pc = "idle"
    /\ \E i \in ProbeInputs, a1, t1, a2, t2 \in ProbeDocs :
        /\ ConfigHashOf(a1, t1) # ConfigHashOf(a2, t2)
        /\ probe' = [IdleProbe EXCEPT !.pc = "picked", !.kind = "two_hashes",
                        !.a = i, !.b = i,
                        !.ha = ConfigHashOf(a1, t1), !.hb = ConfigHashOf(a2, t2)]
    /\ UNCHANGED <<ttl, report, md, api, agentsDoc, tasksDoc, now, store, call, putLog, budget, jobs, worker, maint>>

\* Two states of the pair of config documents.
PickTwoConfigs ==
    /\ probe.pc = "idle"
    /\ \E a1, t1, a2, t2 \in ProbeDocs :
        probe' = [IdleProbe EXCEPT !.pc = "picked", !.kind = "two_configs",
                        !.da = <<a1, t1>>, !.db = <<a2, t2>>]
    /\ UNCHANGED <<ttl, report, md, api, agentsDoc, tasksDoc, now, store, call, putLog, budget, jobs, worker, maint>>

\* Input sets of two requests: those above, requests that name only the
\* course, and values that hold the characters the key string is built with.
PairInputs ==
    ProbeInputs \cup
    { [NoInputs EXCEPT !.course_name = <<"m">>],
      [NoInputs EXCEPT !.course_name = <<"n">>],
      [NoInputs EXCEPT !.book_title = <<"a", "|", "b">>, !.book_author = <<"c">>],
      [NoInputs EXCEPT !.book_title = <<"a">>, !.book_author = <<"b", "|", "c">>],
      [NoInputs EXCEPT !.course_url = <<"u", "|">> \o S_isbn \o <<"c">>],
      [I_u EXCEPT !.isbn = <<"c">>],
      [I_u EXCEPT !.desired_resource_types = <<<<"a", ",", "b">>>>],
      [I_u EXCEPT !.desired_resource_types = <<<<"a">>, <<"b">>>>] }

\* Two different input sets under one config hash.
PickTwoInputs ==
    /\ probe.pc = "idle"
    /\ \E a, b \in PairInputs, h \in ProbeHashes :
        /\ a # b
        /\ probe' = [IdleProbe EXCEPT !.pc = "picked", !.kind = "two_inputs",
                        !.a = a, !.b = b, !.ha = h, !.hb = h]
    /\ UNCHANGED <<ttl, report, md, api, agentsDoc, tasksDoc, now, store, call, putLog, budget, jobs, worker, maint>>

\* The two computations are made.
ProbeApply ==
    /\ probe.pc = "picked"
    /\ probe' = [probe EXCEPT !.pc = "done",
                    !.sa = KeyString(probe.a, probe.ha),
                    !.sb = KeyString(probe.b, probe.hb),
                    !.ka = _generate_cache_key(probe.a, probe.ha),
                    !.kb = _generate_cache_key(probe.b, probe.hb),
                    !.fa = ConfigHashOf(probe.da[1], probe.da[2]),
                    !.fb = ConfigHashOf(probe.db[1], probe.db[2])]
    /\ UNCHANGED <<ttl, report, md, api, agentsDoc, tasksDoc, now, store, call, putLog, budget, jobs, worker, maint>>

NextProbe ==
    \/ PickReordered
    \/ PickTwoHashes
    \/ PickTwoConfigs
    \/ PickTwoInputs
    \/ ProbeApply

\* The computations need no table: it starts empty.
InitProbe == Init /\ store = {}

SpecProbe == InitProbe /\ [][NextProbe]_vars

(***************************************************************************)
(* Job execution: _run_crew_worker (backend/crew_runner.py, runner         *)
(* "thread") and run_crew_task (backend/tasks.py, runner "celery").  The   *)
(* worker of job j makes its cache calls in frame call[j].                 *)
(***************************************************************************)
Runners == {"thread", "celery"}

\* max_retries of the Celery task
MAX_RETRIES == 3

\* The parameters of get_cached_analysis.
GetCachedAnalysisParams == {"inputs", "cache_type", "force_refresh"}

\* The keyword each runner passes its bypass flag under.
LookupKeyword(runner) == IF runner = "thread" THEN "force_refresh" ELSE "bypass_cache"

\* What the agent pipeline hands back: a report with or without a textbook
\* section, or a report that starts with "ERROR:".
CrewOutputs == {"report_textbook", "report_plain", "report_error"}

\* update_job_status(job_id, status, results=, error=): only the fields given
\* are written; completed_at is stamped for the three final statuses.
update_job_status(job, status, results, error, cause) ==
    [job EXCEPT !.status = status,
                !.completed_at = IF status \in {"completed", "failed", "cancelled"}
                                 THEN "set" ELSE @,
                !.results = IF results # None THEN results ELSE @,
                !.error = IF error # None THEN error ELSE @,
                !.cause = IF error # None THEN cause ELSE @]

\* The task is handed to a runner: run_crew_async(job_id, inputs, force_refresh)
\* or run_crew_task.delay(job_id, inputs, bypass_cache).
Dispatch(j, runner, bypass) ==
    /\ api.of[j].submit = 0
    /\ worker[j].pc = "idle"
    /\ jobs[j].status = "pending"
    /\ worker' = [worker EXCEPT ![j] =
            [IdleWorker EXCEPT !.runner = runner, !.pc = "start", !.bypass = bypass]]
    /\ UNCHANGED <<ttl, report, md, api, probe, maint, agentsDoc, tasksDoc, now, store, call, putLog, budget, jobs>>

\* ---- Origin validation --------------------------------------------------

\* ALLOWED_ORIGINS (ALLOWED_ORIGINS of the environment is not set).
ALLOWED_ORIGINS ==
    { <<"h","t","t","p",":","/","/","l","o","c","a","l","h","o","s","t",":","3","0","0","0">>,
      <<"h","t","t","p",":","/","/","1","2","7",".","0",".","0",".","1",":","3","0","0","0">>,
      <<"h","t","t","p",":","/","/","l","o","c","a","l","h","o","s","t",":","5","1","7","3">>,
      <<"h","t","t","p",":","/","/","1","2","7",".","0",".","0",".","1",":","5","1","7","3">>,
      <<"h","t","t","p","s",":","/","/","s","c","h","o","l","a","r","-","s","o","u","r","c","e",".","p","a","g","e","s",".","d","e","v">> }

\* s.rstrip("/")
RECURSIVE RStripSlash(_)
RStripSlash(s) ==
    IF s # <<>> /\ s[Len(s)] = "/" THEN RStripSlash(SubSeq(s, 1, Len(s) - 1)) ELSE s

\* "normalized_allowed = allowed.rstrip('/')" for every allowed origin.
NormalizedAllowed == {RStripSlash(a) : a \in ALLOWED_ORIGINS}

\* The places where "://" starts in s.
SchemeSeps(s) ==
    {i \in 1..(Len(s) - 2) : SubSeq(s, i, i + 2) = <<":", "/", "/">>}

\* "parts = referer.split('://', 1); scheme = parts[0]; rest = parts[1];
\*  domain_port = rest.split('/')[0]; referer_origin = f'{scheme}://{domain_port}'"
\* for a referer that contains "://".
RefererOrigin(referer) ==
    LET i      == CHOOSE k \in SchemeSeps(referer) : \A m \in SchemeSeps(referer) : k <= m
        scheme == SubSeq(referer, 1, i - 1)
        rest   == SubSeq(referer, i + 3, Len(referer))
        domain_port == Split(rest, "/")[1]
    IN  scheme \o <<":", "/", "/">> \o domain_port

\* validate_origin(request) of a POST returns (TRUE) or raises
\* HTTPException(status_code=403) (FALSE): "if origin:" it is compared,
\* without trailing slashes, with every allowed origin; when that did not
\* return, "if referer:" the origin the referer starts with is compared the
\* same way.
validate_origin(headers) ==
    LET Allowed(o) == RStripSlash(o) \in NormalizedAllowed
        origin  == headers.origin
        referer == headers.referer
    IN  \/ origin # <<>> /\ Allowed(origin)
        \/ /\ referer # <<>>
           /\ SchemeSeps(referer) # {}
           /\ Allowed(RefererOrigin(referer))

\* The headers a page of the application sends.
BrowserHeaders ==
    [origin |-> <<"h","t","t","p",":","/","/","l","o","c","a","l","h","o","s","t",":","5","1","7","3">>, referer |-> <<>>]

\* The headers tried: the Origin missing, allowed (with and without a
\* trailing slash) or foreign; the Referer missing, a page of an allowed or of
\* a foreign origin, or no URL.
Headers ==
    [origin : {<<>>, <<"h","t","t","p",":","/","/","l","o","c","a","l","h","o","s","t",":","5","1","7","3">>,
               <<"h","t","t","p",":","/","/","l","o","c","a","l","h","o","s","t",":","5","1","7","3","/">>,
               <<"h","t","t","p",":","/","/","e","v","i","l",".","e","x","a","m","p","l","e">>},
     referer : {<<>>, <<"h","t","t","p",":","/","/","l","o","c","a","l","h","o","s","t",":","5","1","7","3","/","p","a","g","e">>,
                <<"h","t","t","p",":","/","/","e","v","i","l",".","e","x","a","m","p","l","e","/","p","a","g","e">>,
                <<"p","a","g","e">>}]

\* ---- The submit endpoint -------------------------------------------------

\* Field values of a request: not given, blank, or a text.
FieldValues == {<<>>, <<" ">>, <<"x">>}

\* CourseInputRequest.convert_empty_strings_to_none: "if isinstance(value, str)
\* and value.strip() == '': data[key] = None".
convert_empty_strings_to_none(req) ==
    [f \in RequestFields |-> IF Strip(req[f]) = <<>> THEN <<>> ELSE req[f]]

\* Python truthiness of an Optional[str] field: None and '' are false.
Truthy(v) == v # <<>>

\* validate_crew_inputs(inputs): "return has_course_info or has_book_info or
\* has_book_file or has_book_link".
validate_crew_inputs(inputs) ==
    LET has_course_info == \/ Truthy(inputs["course_name"])
                           \/ Truthy(inputs["university_name"])
                           \/ Truthy(inputs["course_url"])
        has_book_info   == \/ Truthy(inputs["book_title"]) /\ Truthy(inputs["book_author"])
                           \/ Truthy(inputs["isbn"])
        has_book_file   == Truthy(inputs["book_pdf_path"])
        has_book_link   == Truthy(inputs["book_url"])
    IN  has_course_info \/ has_book_info \/ has_book_file \/ has_book_link

\* "def run_crew_async(job_id: str, inputs: Dict[str, str], force_refresh: bool
\* = False)": the names a caller may pass.
RunCrewAsyncParams == {"job_id", "inputs", "force_refresh"}

\* "run_crew_async(job_id, inputs, bypass_cache=bypass_cache)": the keyword
\* submit_job passes.
SubmitKeywords == {"bypass_cache"}

\* The requests submitted: every choice of given and missing fields, and the
\* requests with one blank field.
SubmitRequests ==
    [RequestFields -> {<<>>, <<"x">>}]
        \cup {[f \in RequestFields |-> IF f = g THEN <<" ">> ELSE <<>>] : g \in RequestFields}

\* The requests submitted where jobs also run: an empty one and one naming a
\* course page.
RunRequests ==
    {NoRequest, [NoRequest EXCEPT !["course_url"] = <<"x">>]}

\* A job row exists for slot j: the slot was not used by a rejected submit.
JobExists(j) == api.of[j].submit = 0 \/ api.of[j].created

\* The statuses update_job_status stamps with completed_at; cancel_job refuses
\* jobs in them.
FinalStatuses == {"completed", "failed", "cancelled"}

\* POST /api/submit.  "validate_origin(request)" comes first and raises 403;
\* the request is parsed into a CourseInputRequest;
\* "if not validate_crew_inputs(inputs): raise HTTPException(status_code=400
\* ...)"; then, inside try, "job_id = create_job(inputs)" and
\* "run_crew_async(job_id, inputs, bypass_cache=bypass_cache)".  A keyword the
\* runner does not take raises TypeError before the runner does anything, and
\* "except Exception as e: raise HTTPException(status_code=500 ...)" answers;
\* otherwise the background thread is started and the response is job_id with
\* status "pending".
Submit(j, req, bypass, headers) ==
    /\ api.of[j].submit = 0
    /\ worker[j].pc = "idle"
    /\ jobs[j] = NewJob
    /\ LET inputs == convert_empty_strings_to_none(req) IN
       IF ~validate_origin(headers)
       THEN /\ api' = [api EXCEPT !.post = [headers |-> headers, code |-> 403]]
            /\ UNCHANGED <<jobs, worker>>
       ELSE IF ~validate_crew_inputs(inputs)
       THEN /\ api' = [api EXCEPT !.of[j].submit = 400,
                                  !.last = [job |-> j, req |-> req],
                                  !.post = [headers |-> headers, code |-> 400]]
            /\ UNCHANGED <<jobs, worker>>
       ELSE /\ jobs' = [jobs EXCEPT ![j] = NewJob]
            /\ IF SubmitKeywords \subseteq RunCrewAsyncParams
               THEN /\ worker' = [worker EXCEPT ![j] =
                            [IdleWorker EXCEPT !.runner = "thread", !.pc = "start",
                                               !.bypass = bypass]]
                    /\ api' = [api EXCEPT !.of[j].created = TRUE,
                                          !.of[j].submit = 200,
                                          !.of[j].reported = "pending",
                                          !.last = [job |-> j, req |-> req],
                                          !.post = [headers |-> headers, code |-> 200]]
               ELSE /\ api' = [api EXCEPT !.of[j].created = TRUE,
                                          !.of[j].submit = 500,
                                          !.last = [job |-> j, req |-> req],
                                          !.post = [headers |-> headers, code |-> 500]]
                    /\ UNCHANGED worker
    /\ UNCHANGED <<ttl, report, md, probe, maint, agentsDoc, tasksDoc, now, store, call, putLog, budget>>

\* "job = get_job(job_id); if job and job.get('status') == 'cancelled': return"
JobStart(j) ==
    /\ worker[j].pc = "start"
    /\ worker' = [worker EXCEPT
            ![j].pc = IF jobs[j].status = "cancelled" THEN "exit" ELSE "set_running",
            ![j].outcome = IF jobs[j].status = "cancelled" THEN "returned" ELSE @]
    /\ UNCHANGED <<ttl, report, md, api, probe, maint, agentsDoc, tasksDoc, now, store, call, putLog, budget, jobs>>

\* update_job_status(job_id, status="running", ...); the inputs are normalized.
JobSetRunning(j) ==
    /\ worker[j].pc = "set_running"
    /\ jobs' = [jobs EXCEPT ![j] = update_job_status(@, "running", None, None, "none")]
    /\ worker' = [worker EXCEPT ![j].pc = "lookup"]
    /\ UNCHANGED <<ttl, report, md, api, probe, maint, agentsDoc, tasksDoc, now, store, call, putLog, budget>>

\* cached_analysis = get_cached_analysis(normalized_inputs,
\*     cache_type="analysis", <keyword>=<bypass flag>): a keyword the function
\* does not have raises TypeError at the call.
JobLookup(j) ==
    /\ worker[j].pc = "lookup"
    /\ IF LookupKeyword(worker[j].runner) \in GetCachedAnalysisParams
       THEN /\ call' = [call EXCEPT ![j] = StartGet(I_u, S_analysis, worker[j].bypass)]
            /\ worker' = [worker EXCEPT ![j].pc = "wait_get"]
       ELSE /\ worker' = [worker EXCEPT ![j].pc = "handler", ![j].exc = "cache_call",
                                       ![j].msg = "unexpected keyword argument"]
            /\ UNCHANGED call
    /\ UNCHANGED <<ttl, report, md, api, probe, maint, agentsDoc, tasksDoc, now, store, putLog, budget, jobs>>

\* "if cached_analysis: ... else: ..." : both branches write status "running".
JobAfterLookup(j) ==
    /\ worker[j].pc = "wait_get"
    /\ call[j].op = "get" /\ call[j].pc = "done"
    /\ worker' = [worker EXCEPT ![j].pc = "kickoff", ![j].cached = call[j].ret]
    /\ jobs' = [jobs EXCEPT ![j] = update_job_status(@, "running", None, None, "none")]
    /\ UNCHANGED <<ttl, report, md, api, probe, maint, agentsDoc, tasksDoc, now, store, call, putLog, budget>>

\* crew = ScholarSource().crew(); the pipeline is started (kickoff_async).
JobKickoff(j) ==
    /\ worker[j].pc = "kickoff"
    /\ worker' = [worker EXCEPT ![j].pc = "crew_running", ![j].crew = @ + 1,
                                ![j].task = "active"]
    /\ UNCHANGED <<ttl, report, md, api, probe, maint, agentsDoc, tasksDoc, now, store, call, putLog, budget, jobs>>

\* A task of the running pipeline ends and writes its output to its
\* output_file, 'report.md' (resource_search_task).
JobCrewWrites(j, output) ==
    /\ worker[j].pc = "crew_running"
    /\ worker[j].task = "active"
    /\ report # [by |-> j, kind |-> output]
    /\ report' = [by |-> j, kind |-> output]
    /\ UNCHANGED <<ttl, md, api, probe, maint, agentsDoc, tasksDoc, now, store, call, putLog, budget,
                   jobs, worker>>

\* The last task (final_output_task) writes report.md and the pipeline returns
\* its output; update_job_status("running", "Parsing results...").
JobCrewReturns(j, output) ==
    /\ worker[j].pc = "crew_running"
    /\ worker[j].task = "active"
    /\ report' = [by |-> j, kind |-> output]
    /\ worker' = [worker EXCEPT ![j].pc = "parsed", ![j].task = "none",
                                ![j].output = output]
    /\ jobs' = [jobs EXCEPT ![j] = update_job_status(@, "running", None, None, "none")]
    /\ UNCHANGED <<ttl, md, api, probe, maint, agentsDoc, tasksDoc, now, store, call, putLog, budget>>

\* The pipeline raises an exception e with str(e) = msg.
JobCrewRaises(j, msg) ==
    /\ worker[j].pc = "crew_running"
    /\ worker[j].task = "active"
    /\ worker' = [worker EXCEPT ![j].pc = "handler", ![j].task = "none",
                                ![j].exc = "crew", ![j].msg = msg]
    /\ UNCHANGED <<ttl, report, md, api, probe, maint, agentsDoc, tasksDoc, now, store, call, putLog, budget, jobs>>

\* "except asyncio.CancelledError": the awaited task was cancelled
\* (crew_runner only).
JobCrewCancelled(j) ==
    /\ worker[j].pc = "crew_running"
    /\ worker[j].task = "cancelled"
    /\ worker' = [worker EXCEPT ![j].pc = "exit", ![j].task = "none",
                                ![j].outcome = "returned"]
    /\ jobs' = [jobs EXCEPT ![j] =
            update_job_status(@, "cancelled", None, "cancelled", "cancel")]
    /\ UNCHANGED <<ttl, report, md, api, probe, maint, agentsDoc, tasksDoc, now, store, call, putLog, budget>>

\* "if report_path.exists(): markdown_content = f.read() else: markdown_content
\* = raw_output".
ReadReport(file, raw_output) ==
    IF file # NoReport THEN file ELSE raw_output

\* The analysis_results built from the text that was parsed.
AnalysisOf(markdown_content) == PayloadOf(markdown_content.by)

\* The resources parsed from the text.
ResourcesOf(markdown_content) ==
    IF markdown_content.by = 1 THEN "resources of pipeline 1" ELSE "resources of pipeline 2"

\* The read of report.md, the "ERROR:" check, the parse, and the store of a
\* fresh analysis: "if not cached_analysis and textbook_info:
\* set_cached_analysis(...)".
JobAfterParse(j) ==
    /\ worker[j].pc = "parsed"
    /\ LET markdown_content == ReadReport(report, [by |-> j, kind |-> worker[j].output]) IN
       IF markdown_content.kind = "report_error"
       THEN /\ jobs' = [jobs EXCEPT ![j] =
                    update_job_status(@, "failed", None, "error report", "report")]
            /\ worker' = [worker EXCEPT ![j].pc = "exit", ![j].outcome = "returned",
                                        ![j].markdown_content = markdown_content]
            /\ UNCHANGED call
       ELSE IF worker[j].cached = None /\ markdown_content.kind = "report_textbook"
       THEN /\ call' = [call EXCEPT ![j] =
                    StartSet(I_u, AnalysisOf(markdown_content), S_analysis)]
            /\ worker' = [worker EXCEPT ![j].pc = "wait_set",
                                        ![j].markdown_content = markdown_content]
            /\ UNCHANGED jobs
       ELSE /\ worker' = [worker EXCEPT ![j].pc = "final_check",
                                        ![j].markdown_content = markdown_content]
            /\ UNCHANGED <<jobs, call>>
    /\ UNCHANGED <<ttl, report, md, api, probe, maint, agentsDoc, tasksDoc, now, store, putLog, budget>>

\* set_cached_analysis has returned.
JobAfterStore(j) ==
    /\ worker[j].pc = "wait_set"
    /\ call[j].op = "set" /\ call[j].pc = "done"
    /\ worker' = [worker EXCEPT ![j].pc = "final_check"]
    /\ UNCHANGED <<ttl, report, md, api, probe, maint, agentsDoc, tasksDoc, now, store, call, putLog, budget, jobs>>

\* "job = get_job(job_id); if job and job.get('status') == 'cancelled': return"
JobFinalCheck(j) ==
    /\ worker[j].pc = "final_check"
    /\ worker' = [worker EXCEPT
            ![j].pc = IF jobs[j].status = "cancelled" THEN "exit" ELSE "complete",
            ![j].outcome = IF jobs[j].status = "cancelled" THEN "returned" ELSE @]
    /\ UNCHANGED <<ttl, report, md, api, probe, maint, agentsDoc, tasksDoc, now, store, call, putLog, budget, jobs>>

\* update_job_status(job_id, status="completed", results=resources, ...)
JobComplete(j) ==
    /\ worker[j].pc = "complete"
    /\ jobs' = [jobs EXCEPT ![j] =
            update_job_status(@, "completed", ResourcesOf(worker[j].markdown_content), None,
                              "none")]
    /\ worker' = [worker EXCEPT ![j].pc = "exit", ![j].outcome = "returned"]
    /\ UNCHANGED <<ttl, report, md, api, probe, maint, agentsDoc, tasksDoc, now, store, call, putLog, budget>>

\* str(e) of the exceptions the pipeline raises: some have no message.
CrewErrors == {"", "CrewAI execution failed"}

\* transform_error_for_user(e)[0]: every branch returns a fixed sentence.
transform_error_for_user(msg) == "An unexpected error occurred"

ErrorMessage_Fixed(runner, msg) == "Job failed"

\* The error the handler stores: str(e) in crew_runner, the user message in
\* tasks.
ErrorMessage(runner, msg) ==
    IF runner = "thread" THEN msg ELSE transform_error_for_user(msg)

\* The names the except block of a runner has assigned when it ends.
HandlerNames(runner) ==
    IF runner = "thread" THEN {"e", "error_message", "stack_trace"}
    ELSE {"e", "user_message", "error_type", "technical_error", "stack_trace"}

\* How the except block ends once the job is marked failed: crew_runner falls
\* off its end; run_crew_task raises self.retry(...); run_crew_task_sync
\* evaluates 'return {"status": "failed", "error": error_message, ...}', a
\* NameError when the name was never assigned.
HandlerOutcome(runner) ==
    CASE runner = "thread" -> "returned"
      [] runner = "celery" -> "raised"
      [] OTHER -> IF "error_message" \in HandlerNames(runner) THEN "returned" ELSE "raised"

\* "except Exception as e": the job is marked failed; the Celery task then
\* raises self.retry(exc=e, countdown=60) and is run again, up to max_retries.
JobHandler(j) ==
    /\ worker[j].pc = "handler"
    /\ jobs' = [jobs EXCEPT ![j] =
            update_job_status(@, "failed", None,
                              ErrorMessage(worker[j].runner, worker[j].msg), worker[j].exc)]
    /\ worker' = [worker EXCEPT ![j] =
            IF @.runner = "celery" /\ @.retries < MAX_RETRIES
            THEN [IdleWorker EXCEPT !.runner = worker[j].runner, !.pc = "start",
                                    !.bypass = worker[j].bypass,
                                    !.retries = worker[j].retries + 1]
            ELSE [@ EXCEPT !.pc = "exit", !.outcome = HandlerOutcome(worker[j].runner)]]
    /\ UNCHANGED <<ttl, report, md, api, probe, maint, agentsDoc, tasksDoc, now, store, call, putLog, budget>>

\* POST /api/cancel/{job_id}: refused for a wrong origin and for a finished
\* job; otherwise cancel_crew_job(job_id) cancels the active task of the
\* crew_runner thread and the job is marked cancelled.
Cancel(j, headers) ==
    /\ validate_origin(headers)
    /\ JobExists(j)
    /\ jobs[j].status \notin FinalStatuses
    /\ worker' = [worker EXCEPT ![j].task =
            IF worker[j].runner = "thread" /\ @ = "active" THEN "cancelled" ELSE @]
    /\ jobs' = [jobs EXCEPT ![j] =
            update_job_status(@, "cancelled", None, "cancelled", "cancel")]
    /\ api' = [api EXCEPT !.of[j].cancel = 200, !.of[j].found = "none",
                          !.post = [headers |-> headers, code |-> 200]]
    /\ UNCHANGED <<ttl, report, md, probe, maint, agentsDoc, tasksDoc, now, store, call, putLog, budget>>

\* cancel_job for a request that is refused: "validate_origin(request)"
\* raises 403; "if not job: raise HTTPException(status_code=404 ...)"; "if
\* current_status in ['completed', 'failed', 'cancelled']: raise
\* HTTPException(status_code=400 ...)".  Nothing is written.
CancelRefused(j, headers) ==
    /\ ~validate_origin(headers) \/ ~JobExists(j) \/ jobs[j].status \in FinalStatuses
    /\ LET code == IF ~validate_origin(headers) THEN 403
                   ELSE IF JobExists(j) THEN 400 ELSE 404
       IN  api' = [api EXCEPT
                !.of[j].cancel = code,
                !.of[j].found = IF code = 400 THEN jobs[j].status ELSE "none",
                !.post = [headers |-> headers, code |-> code]]
    /\ api' # api
    /\ UNCHANGED <<ttl, report, md, probe, maint, agentsDoc, tasksDoc, now, store, call, putLog, budget,
                   jobs, worker>>

NextJobs ==
    \/ \E j \in Callers, r \in Runners, b \in BOOLEAN : Dispatch(j, r, b)
    \/ \E j \in Callers : JobStart(j)
    \/ \E j \in Callers : JobSetRunning(j)
    \/ \E j \in Callers : JobLookup(j)
    \/ \E j \in Callers : JobAfterLookup(j)
    \/ \E j \in Callers : JobKickoff(j)
    \/ \E j \in Callers, o \in CrewOutputs : JobCrewWrites(j, o)
    \/ \E j \in Callers, o \in CrewOutputs : JobCrewReturns(j, o)
    \/ \E j \in Callers, msg \in CrewErrors : JobCrewRaises(j, msg)
    \/ \E j \in Callers : JobCrewCancelled(j)
    \/ \E j \in Callers : JobAfterParse(j)
    \/ \E j \in Callers : JobAfterStore(j)
    \/ \E j \in Callers : JobFinalCheck(j)
    \/ \E j \in Callers : JobComplete(j)
    \/ \E j \in Callers : JobHandler(j)
    \/ \E j \in Callers : Cancel(j, BrowserHeaders)
    \/ \E c \in Callers : GetBegin(c)
    \/ \E c \in Callers : GetSelect(c)
    \/ \E c \in Callers : GetCheck(c)
    \/ \E c \in Callers : GetDelete(c)
    \/ \E c \in Callers : SetBegin(c)
    \/ \E c \in Callers : SetUpsert(c)
    \/ Tick(COURSE_ANALYSIS_TTL_DAYS + 1)   \* long enough for an analysis to expire

\* Jobs start on an empty cache table.
InitJobs == Init /\ store = {}

\* The worker's steps of one job, the cache calls it makes included.
WorkerStep(j) ==
    \/ JobStart(j) \/ JobSetRunning(j) \/ JobLookup(j) \/ JobAfterLookup(j)
    \/ JobKickoff(j) \/ JobAfterParse(j) \/ JobAfterStore(j) \/ JobFinalCheck(j)
    \/ JobComplete(j) \/ JobHandler(j)
    \/ GetBegin(j) \/ GetSelect(j) \/ GetCheck(j) \/ SetBegin(j) \/ SetUpsert(j)

\* The pipeline of one job comes to an end.
CrewStep(j) ==
    \/ \E o \in CrewOutputs : JobCrewWrites(j, o)
    \/ \E o \in CrewOutputs : JobCrewReturns(j, o)
    \/ \E msg \in CrewErrors : JobCrewRaises(j, msg)
    \/ JobCrewCancelled(j)

\* Jobs submitted and cancelled through the endpoints, next to jobs handed to a
\* worker directly.
NextApi ==
    \/ \E j \in Callers, req \in RunRequests, b \in BOOLEAN : Submit(j, req, b, BrowserHeaders)
    \/ \E j \in Callers, r \in Runners, b \in BOOLEAN : Dispatch(j, r, b)
    \/ \E j \in Callers : JobStart(j)
    \/ \E j \in Callers : JobSetRunning(j)
    \/ \E j \in Callers : JobLookup(j)
    \/ \E j \in Callers : JobAfterLookup(j)
    \/ \E j \in Callers : JobKickoff(j)
    \/ \E j \in Callers, o \in CrewOutputs : JobCrewWrites(j, o)
    \/ \E j \in Callers, o \in CrewOutputs : JobCrewReturns(j, o)
    \/ \E j \in Callers, msg \in CrewErrors : JobCrewRaises(j, msg)
    \/ \E j \in Callers : JobCrewCancelled(j)
    \/ \E j \in Callers : JobAfterParse(j)
    \/ \E j \in Callers : JobAfterStore(j)
    \/ \E j \in Callers : JobFinalCheck(j)
    \/ \E j \in Callers : JobComplete(j)
    \/ \E j \in Callers : JobHandler(j)
    \/ \E j \in Callers : Cancel(j, BrowserHeaders)
    \/ \E j \in Callers : CancelRefused(j, BrowserHeaders)
    \/ \E c \in Callers : GetBegin(c)
    \/ \E c \in Callers : GetSelect(c)
    \/ \E c \in Callers : GetCheck(c)
    \/ \E c \in Callers : SetBegin(c)
    \/ \E c \in Callers : SetUpsert(c)

SpecApi == InitJobs /\ [][NextApi]_vars

\* Every step a worker or a pipeline can take is eventually taken.
SpecApiFair ==
    SpecApi /\ \A j \in Callers : WF_vars(WorkerStep(j)) /\ WF_vars(CrewStep(j))

\* Requests of every shape, submitted and cancelled.
NextSubmit ==
    \/ \E j \in Callers, req \in SubmitRequests, b \in BOOLEAN : Submit(j, req, b, BrowserHeaders)
    \/ \E j \in Callers : Cancel(j, BrowserHeaders)
    \/ \E j \in Callers : CancelRefused(j, BrowserHeaders)

SpecSubmit == InitJobs /\ [][NextSubmit]_vars

\* Requests under every choice of headers.
NextOrigin ==
    \/ \E j \in Callers, req \in RunRequests, b \in BOOLEAN, h \in Headers :
            Submit(j, req, b, h)
    \/ \E j \in Callers, h \in Headers : Cancel(j, h)
    \/ \E j \in Callers, h \in Headers : CancelRefused(j, h)

SpecOrigin == InitJobs /\ [][NextOrigin]_vars


SpecJobs == InitJobs /\ [][NextJobs]_vars

\* Jobs executed by run_crew_task_sync (SYNC_MODE), and cancelled.
NextSync ==
    \/ \E j \in Callers, b \in BOOLEAN : Dispatch(j, "sync", b)
    \/ \E j \in Callers : JobStart(j)
    \/ \E j \in Callers : JobSetRunning(j)
    \/ \E j \in Callers : JobLookup(j)
    \/ \E j \in Callers : JobHandler(j)
    \/ \E j \in Callers : Cancel(j, BrowserHeaders)

SpecSync == InitJobs /\ [][NextSync]_vars

\* C6: a job whose cache lookup returned a cached analysis does not invoke
\* the agent pipeline.
C6_HitSkipsPipeline ==
    \A j \in Callers : worker[j].cached # None => worker[j].crew = 0

\* C7: no job is marked failed because a cache operation raised at its call
\* site.
C7_CacheFailureNotFatal ==
    \A j \in Callers : jobs[j].status = "failed" => jobs[j].cause # "cache_call"

(***************************************************************************)
(* backend/markdown_parser.py.  The functions are computed on the text,    *)
(* character by character; the regular expressions of the source are       *)
(* patterns of a backtracking matcher that tries alternatives and          *)
(* repetitions in the order Python's re does.                              *)
(***************************************************************************)

\* The letters str.lower(), str.upper() and str.title() change.
Upper == <<"A","B","C","D","E","F","G","H","I","J","K","L","M","N","O","P","Q","R","S","T","U","V","W","X","Y","Z">>
Lowercase == <<"a","b","c","d","e","f","g","h","i","j","k","l","m","n","o","p","q","r","s","t","u","v","w","x","y","z">>

\* str.lower() and str.upper() of one character
LowerChar(c) ==
    IF \E k \in 1..26 : Upper[k] = c
    THEN Lowercase[CHOOSE k \in 1..26 : Upper[k] = c] ELSE c

UpperChar(c) ==
    IF \E k \in 1..26 : Lowercase[k] = c
    THEN Upper[CHOOSE k \in 1..26 : Lowercase[k] = c] ELSE c

\* str.lower()
Lower(s) == [k \in 1..Len(s) |-> LowerChar(s[k])]

\* "sub in s"
Contains(s, sub) ==
    \E k \in 1..(Len(s) - Len(sub) + 1) : SubSeq(s, k, k + Len(sub) - 1) = sub

Digits == {"0","1","2","3","4","5","6","7","8","9"}

\* Regular expressions (module re).  A pattern is a sequence of nodes: a
\* literal (Lit; LitI under re.IGNORECASE), a character class repeated min to
\* max times (In, NotIn; Lazy for the non-greedy form), alternatives (Alt, Opt),
\* the two ends of a group (Open, Close), a lookahead (Ahead) and "$" (End).
Lit(t) == [op |-> "lit", s |-> t, ic |-> FALSE]
LitI(t) == [op |-> "lit", s |-> Lower(t), ic |-> TRUE]
Inf == 1000     \* repetitions of a character class with no upper limit
In(set, min, max) == [op |-> "set", in |-> set, neg |-> FALSE, min |-> min, max |-> max, lazy |-> FALSE]
NotIn(set, min, max) == [op |-> "set", in |-> set, neg |-> TRUE, min |-> min, max |-> max, lazy |-> FALSE]
Lazy(node) == [node EXCEPT !.lazy = TRUE]
Alt(alts) == [op |-> "alt", alts |-> alts]
Opt(p) == Alt(<<p, <<>>>>)
Open(n) == [op |-> "open", n |-> n]
Close(n) == [op |-> "close", n |-> n]
Ahead(p) == [op |-> "ahead", p |-> p]
End == [op |-> "end"]

MaxGroups == 2
NoGroups == [n \in 1..MaxGroups |-> <<0, 0>>]
NoMatch == [ok |-> FALSE, b |-> 0, e |-> 0, g |-> NoGroups]

\* The number of characters from position lo on that node p accepts, looking
\* no further than position hi.  The range is halved, so that the depth of
\* the recursion is the logarithm of its length.
RECURSIVE Run(_, _, _, _)
Run(p, s, lo, hi) ==
    IF lo > hi THEN 0
    ELSE IF lo = hi THEN (IF (s[lo] \in p.in) # p.neg THEN 1 ELSE 0)
    ELSE LET mid == (lo + hi) \div 2
             left == Run(p, s, lo, mid)
         IN  IF left < mid - lo + 1 THEN left ELSE left + Run(p, s, mid + 1, hi)

\* The number of characters from position i on that node p accepts, at most
\* p.max.
RunFrom(p, s, i) ==
    Run(p, s, i, IF i + p.max - 1 < Len(s) THEN i + p.max - 1 ELSE Len(s))

\* The literal of node p stands at position i.
LitAt(p, s, i) ==
    /\ i + Len(p.s) - 1 <= Len(s)
    /\ (IF p.ic THEN Lower(SubSeq(s, i, i + Len(p.s) - 1))
                ELSE SubSeq(s, i, i + Len(p.s) - 1)) = p.s

\* The first of a set of attempts, each with its rank j, that matched.
FirstHit(tries) ==
    IF \A t \in tries : ~t.r.ok THEN NoMatch
    ELSE (CHOOSE t \in tries : t.r.ok /\ \A u \in tries : u.r.ok => t.j <= u.j).r

RECURSIVE MatchSeq(_, _, _, _), TryCounts(_, _, _, _, _, _), TryAlts(_, _, _, _, _)

\* The first way, in the order a backtracking matcher tries them, in which
\* the nodes ps match s from position i on; g are the groups so far.
MatchSeq(ps, s, i, g) ==
    IF ps = <<>> THEN [ok |-> TRUE, b |-> 0, e |-> i, g |-> g]
    ELSE CASE ps[1].op = "lit" ->
                IF LitAt(ps[1], s, i) THEN MatchSeq(Tail(ps), s, i + Len(ps[1].s), g)
                ELSE NoMatch
           [] ps[1].op = "set" -> TryCounts(Tail(ps), s, i, g, ps[1], RunFrom(ps[1], s, i))
           [] ps[1].op = "alt" -> TryAlts(ps[1].alts, Tail(ps), s, i, g)
           [] ps[1].op = "open" ->
                MatchSeq(Tail(ps), s, i, [g EXCEPT ![ps[1].n] = <<i, i>>])
           [] ps[1].op = "close" ->
                MatchSeq(Tail(ps), s, i, [g EXCEPT ![ps[1].n] = <<@[1], i>>])
           [] ps[1].op = "ahead" ->
                IF MatchSeq(ps[1].p, s, i, g).ok THEN MatchSeq(Tail(ps), s, i, g)
                ELSE NoMatch
           [] ps[1].op = "end" ->
                IF i = Len(s) + 1 \/ (i = Len(s) /\ s[i] = "\n")
                THEN MatchSeq(Tail(ps), s, i, g) ELSE NoMatch

\* The repetition p, which can take up to n characters from position i on,
\* takes the first number of them with which the rest matches: the most
\* first, or the fewest first when it is lazy.
TryCounts(rest, s, i, g, p, n) ==
    IF n < p.min THEN NoMatch
    ELSE FirstHit({[j |-> j,
                    r |-> MatchSeq(rest, s, i + (IF p.lazy THEN p.min + j ELSE n - j), g)] :
                        j \in 0..(n - p.min)})

TryAlts(alts, rest, s, i, g) ==
    IF Len(alts) = 0 THEN NoMatch
    ELSE LET r == MatchSeq(Head(alts) \o rest, s, i, g)
         IN  IF r.ok THEN r ELSE TryAlts(Tail(alts), rest, s, i, g)

\* re.search(pattern, s[from:]) with positions in s: the match at the first
\* position from which ps matches.
SearchFrom(ps, s, from) ==
    FirstHit({[j |-> j, r |-> [MatchSeq(ps, s, j, NoGroups) EXCEPT !.b = j]] :
                j \in from..(Len(s) + 1)})

Search(ps, s) == SearchFrom(ps, s, 1)

\* re.finditer(pattern, s)
RECURSIVE FindIter(_, _, _)
FindIter(ps, s, from) ==
    LET m == SearchFrom(ps, s, from)
    IN  IF ~m.ok THEN <<>>
        ELSE <<m>> \o FindIter(ps, s, IF m.e > m.b THEN m.e ELSE m.e + 1)

\* match.group(0) and match.group(n); IsSet: the group took part in the match
Group0(s, m) == SubSeq(s, m.b, m.e - 1)
IsSet(m, n) == m.g[n][1] # 0
Group(s, m, n) == SubSeq(s, m.g[n][1], m.g[n][2] - 1)

\* Where a str may stand: not None and not empty ("if x:", "x or ...").
NoneS == <<"None">>
Given(x) == x # NoneS /\ x # <<>>

\* s.rstrip(c) for one character c
RECURSIVE RStripChar(_, _)
RStripChar(s, c) ==
    IF s # <<>> /\ s[Len(s)] = c THEN RStripChar(SubSeq(s, 1, Len(s) - 1), c) ELSE s

\* str.title(): a letter after a letter is lower-cased, any other letter is
\* upper-cased.
Title(s) ==
    [k \in 1..Len(s) |->
        IF k > 1 /\ LowerChar(s[k - 1]) # UpperChar(s[k - 1])
        THEN LowerChar(s[k]) ELSE UpperChar(s[k])]

\* s.find(sub): the first position (from 1), 0 when there is none
Find(s, sub) ==
    IF Contains(s, sub)
    THEN CHOOSE k \in 1..(Len(s) - Len(sub) + 1) :
            /\ SubSeq(s, k, k + Len(sub) - 1) = sub
            /\ \A m \in 1..(k - 1) : SubSeq(s, m, m + Len(sub) - 1) # sub
    ELSE 0

\* The first match of the first pattern of a list that matches (its index and
\* the match), as "for pattern in patterns: match = re.search(...); if match:".
RECURSIVE FirstSearch(_, _, _)
FirstSearch(patterns, s, k) ==
    IF k > Len(patterns) THEN [n |-> 0, m |-> NoMatch]
    ELSE LET m == Search(patterns[k], s)
         IN  IF m.ok THEN [n |-> k, m |-> m] ELSE FirstSearch(patterns, s, k + 1)

\* 'https?://'
HttpScheme == <<Lit(<<"h","t","t","p">>), In({"s"}, 0, 1), Lit(<<":","/","/">>)>>
HttpSchemeI == <<LitI(<<"h","t","t","p">>), In({"s", "S"}, 0, 1), Lit(<<":","/","/">>)>>

\* _extract_url(text)
_extract_url(text) ==
    LET link_match == Search(<<Lit(<<"[">>), Lazy(NotIn({"\n"}, 0, Inf)), Lit(<<"]","(">>), Open(1)>>
                             \o HttpScheme \o <<NotIn({")"}, 1, Inf), Close(1), Lit(<<")">>)>>, text)
        url_match == Search(<<Alt(<< <<LitI(<<"L","i","n","k">>)>>, <<LitI(<<"U","R","L">>)>>, <<LitI(<<"W","e","b","s","i","t","e">>)>> >>),
                              Lit(<<":">>), In(Whitespace, 0, Inf), Open(1)>>
                            \o HttpSchemeI \o <<NotIn(Whitespace, 1, Inf), Close(1)>>, text)
        plain_url_match == Search(HttpScheme \o <<NotIn(Whitespace \cup {")", "]", ",", ">"}, 1, Inf)>>, text)
    IN  IF link_match.ok THEN Strip(Group(text, link_match, 1))
        ELSE IF url_match.ok THEN Strip(Group(text, url_match, 1))
        ELSE IF plain_url_match.ok THEN Strip(Group0(text, plain_url_match))
        ELSE <<>>

\* The providers _extract_source looks for.
Providers(long) ==
    Alt(<< <<LitI(<<"M","I","T">>)>>, <<LitI(<<"S","t","a","n","f","o","r","d">>)>>, <<LitI(<<"O","p","e","n","S","t","a","x">>)>>,
           <<LitI(IF long THEN <<"K","h","a","n"," ","A","c","a","d","e","m","y">> ELSE <<"K","h","a","n">>)>>, <<LitI(<<"C","o","u","r","s","e","r","a">>)>>,
           <<LitI(<<"e","d","X">>)>>, <<LitI(<<"L","i","b","r","e","T","e","x","t","s">>)>> >>)

\* _extract_source(text)
_extract_source(text) ==
    LET source_patterns ==
            << <<Alt(<< <<LitI(<<"S","o","u","r","c","e">>)>>, <<LitI(<<"P","r","o","v","i","d","e","r">>)>>, <<LitI(<<"F","r","o","m">>)>> >>),
                 Lit(<<":">>), In(Whitespace, 0, Inf), Open(1), NotIn({"\n", "-", "*"}, 1, Inf), Close(1)>>,
               <<Lit(<<"(">>), Open(1), NotIn({")"}, 0, Inf), Providers(FALSE),
                 NotIn({")"}, 0, Inf), Close(1), Lit(<<")">>)>>,
               <<Providers(TRUE), NotIn({"\n", "-"}, 0, Inf)>> >>
        f == FirstSearch(source_patterns, text, 1)
    IN  IF f.n = 0 THEN <<>>
        ELSE IF f.n < 3 THEN Strip(Group(text, f.m, 1))
        ELSE Strip(Group0(text, f.m))

\* _extract_description(text); the bullet class of the second pattern also
\* holds three characters that no text here contains.
_extract_description(text) ==
    LET desc_patterns ==
            << <<Alt(<< <<Lit(<<"W","h","a","t"," ","i","t"," ","c","o","v","e","r","s">>)>>, <<Lit(<<"D","e","s","c","r","i","p","t","i","o","n">>)>>, <<Lit(<<"B","e","s","t"," ","f","o","r">>)>> >>),
                 Lit(<<":">>), In(Whitespace, 0, Inf), Open(1), NotIn({"\n"}, 1, Inf), Close(1)>>,
               <<In({"-"}, 1, 1), In(Whitespace, 0, Inf), Open(1), NotIn({"\n"}, 30, 200), Close(1)>> >>
        f == FirstSearch(desc_patterns, text, 1)
    IN  IF f.n = 0 THEN NoneS ELSE Strip(Group(text, f.m, 1))

\* _extract_title_from_context(context, url)
_extract_title_from_context(context, url) ==
    LET before_url == SubSeq(context, 1,
                             IF Find(context, url) = 0 THEN Len(context) - 1
                             ELSE Find(context, url) - 1)
        Mark == Alt(<< <<Lit(<<"*","*">>)>>, <<Lit(<<"#","#">>)>> >>)
        title_match == Search(<<Mark, In(Whitespace, 0, Inf), Open(1),
                                Lazy(NotIn({"*", "#", "\n"}, 1, Inf)), Close(1),
                                Alt(<< <<Lit(<<"*","*">>)>>, <<Lit(<<"#","#">>)>>, <<Lit(<<"\n">>)>>, <<End>> >>)>>,
                              before_url)
        link_match == Search(<<Lit(<<"[">>), Open(1), NotIn({"]"}, 1, Inf), Close(1), Lit(<<"]">>)>>,
                             before_url)
    IN  IF title_match.ok THEN Strip(Group(before_url, title_match, 1))
        ELSE IF link_match.ok THEN Strip(Group(before_url, link_match, 1))
        ELSE NoneS

\* _normalize_type(type_str): type_map in the order of the dict, then
\* type_str.title().
type_map ==
    << <<<<"o","p","e","n"," ","t","e","x","t","b","o","o","k">>, <<"T","e","x","t","b","o","o","k">>>>, <<<<"t","e","x","t","b","o","o","k">>, <<"T","e","x","t","b","o","o","k">>>>,
       <<<<"v","i","d","e","o"," ","l","e","c","t","u","r","e">>, <<"V","i","d","e","o">>>>, <<<<"l","e","c","t","u","r","e"," ","s","e","r","i","e","s">>, <<"V","i","d","e","o">>>>,
       <<<<"v","i","d","e","o">>, <<"V","i","d","e","o">>>>, <<<<"y","o","u","t","u","b","e">>, <<"V","i","d","e","o">>>>,
       <<<<"c","o","u","r","s","e"," ","n","o","t","e","s">>, <<"C","o","u","r","s","e">>>>, <<<<"l","e","c","t","u","r","e"," ","n","o","t","e","s">>, <<"N","o","t","e","s">>>>,
       <<<<"n","o","t","e","s">>, <<"N","o","t","e","s">>>>, <<<<"t","u","t","o","r","i","a","l">>, <<"T","u","t","o","r","i","a","l">>>>,
       <<<<"i","n","t","e","r","a","c","t","i","v","e"," ","t","u","t","o","r","i","a","l">>, <<"T","u","t","o","r","i","a","l">>>>, <<<<"c","o","u","r","s","e">>, <<"C","o","u","r","s","e">>>>,
       <<<<"p","d","f">>, <<"P","D","F">>>>, <<<<"w","e","b","s","i","t","e">>, <<"W","e","b","s","i","t","e">>>>, <<<<"w","e","b"," ","p","a","g","e">>, <<"W","e","b","s","i","t","e">>>> >>

\* As _normalize_type, with the text itself as the fallback.
_normalize_type_Raw(type_str) ==
    LET type_lower == Lower(type_str)
        hits == {k \in 1..Len(type_map) : Contains(type_lower, type_map[k][1])}
    IN  IF hits # {} THEN type_map[CHOOSE k \in hits : \A m \in hits : k <= m][2]
        ELSE type_str

\* _normalize_type(type_str): the value of the first key of type_map, in the
\* order of the dictionary, that the lower-cased text contains.
_normalize_type(type_str) ==
    LET type_lower == Lower(type_str)
        hits == {k \in 1..Len(type_map) : Contains(type_lower, type_map[k][1])}
    IN  IF hits # {} THEN type_map[CHOOSE k \in hits : \A m \in hits : k <= m][2]
        ELSE Title(type_str)

\* _extract_type_from_context(context)
_extract_type_from_context(context) ==
    LET type_match == Search(<<Alt(<< <<LitI(<<"T","y","p","e">>)>>, <<LitI(<<"F","o","r","m","a","t">>)>> >>), Lit(<<":">>),
                               In(Whitespace, 0, Inf), Open(1), NotIn({"\n", ")", "-"}, 1, Inf), Close(1)>>,
                             context)
    IN  IF type_match.ok THEN _normalize_type(Strip(Group(context, type_match, 1)))
        ELSE <<"R","e","s","o","u","r","c","e">>

\* _infer_type_from_url(url)
_infer_type_from_url(url) ==
    LET url_lower == Lower(url)
        AnyIn(xs) == \E x \in xs : Contains(url_lower, x)
    IN  IF AnyIn({<<"y","o","u","t","u","b","e",".","c","o","m">>, <<"y","o","u","t","u",".","b","e">>}) THEN <<"V","i","d","e","o">>
        ELSE IF AnyIn({<<".","p","d","f">>, <<"p","d","f">>}) THEN <<"P","D","F">>
        ELSE IF AnyIn({<<"o","p","e","n","s","t","a","x">>, <<"t","e","x","t","b","o","o","k">>, <<"b","o","o","k">>}) THEN <<"T","e","x","t","b","o","o","k">>
        ELSE IF AnyIn({<<"c","o","u","r","s","e">>, <<"l","e","c","t","u","r","e">>, <<"o","c","w">>, <<"c","o","u","r","s","e","r","a">>, <<"e","d","x">>}) THEN <<"C","o","u","r","s","e">>
        ELSE IF AnyIn({<<"n","o","t","e","s">>, <<"t","u","t","o","r","i","a","l">>, <<"g","u","i","d","e">>}) THEN <<"T","u","t","o","r","i","a","l">>
        ELSE <<"W","e","b","s","i","t","e">>

\* _extract_domain(url)
_extract_domain(url) ==
    LET domain_match == Search(HttpScheme \o <<Opt(<<Lit(<<"w","w","w",".">>)>>), Open(1),
                                                NotIn({"/"}, 1, Inf), Close(1)>>, url)
        domain == Group(url, domain_match, 1)
        tld == Search(<<Lit(<<".">>), Alt(<< <<Lit(<<"c","o","m">>)>>, <<Lit(<<"o","r","g">>)>>, <<Lit(<<"e","d","u">>)>>,
                                          <<Lit(<<"n","e","t">>)>>, <<Lit(<<"i","o">>)>> >>), End>>, domain)
    IN  IF domain_match.ok
        THEN Title(IF tld.ok THEN SubSeq(domain, 1, tld.b - 1) \o SubSeq(domain, tld.e, Len(domain))
                   ELSE domain)
        ELSE <<"U","n","k","n","o","w","n">>

\* error_indicators of _contains_error
error_indicators == <<<<"E","R","R","O","R",":">>, <<"C","o","u","l","d"," ","n","o","t"," ","f","e","t","c","h">>, <<"f","a","i","l","e","d"," ","t","o">>, <<"H","T","T","P"," ","e","r","r","o","r">>, <<"t","i","m","e","d"," ","o","u","t">>>>

\* _contains_error(url, title, description) raises AttributeError when url or
\* title is None ("field.lower()"); description is read as "description or ''".
_contains_error_raises(url, title, description) == url = NoneS \/ title = NoneS

\* As _contains_error, never finding an error indicator.
_contains_error_Never(url, title, description) == FALSE

_contains_error(url, title, description) ==
    LET fields_to_check == <<url, title, IF Given(description) THEN description ELSE <<>> >>
    IN  \E f \in 1..3, k \in 1..Len(error_indicators) :
            Contains(Lower(fields_to_check[f]), Lower(error_indicators[k]))

\* "x or y" for strings
Or(x, y) == IF Given(x) THEN x ELSE y

\* As TitleOrEmpty, without the "or ''".
TitleOrEmpty_AsIs(title) == title

\* "title or ''", the title handed to _contains_error by _parse_all_links
TitleOrEmpty(title) == Or(title, <<>>)

\* The resources of a strategy: the candidates it keeps, in order, and whether
\* a call it made raised.
Kept(cands) ==
    [raised |-> \E k \in 1..Len(cands) : cands[k].raised,
     resources |-> LET kept == SelectSeq(cands, LAMBDA c : c.keep)
                   IN  [k \in 1..Len(kept) |-> kept[k].resource]]

Resource(type, title, source, url, description) ==
    [type |-> type, title |-> title, source |-> source, url |-> url,
     description |-> description]

\* _parse_numbered_resources(content)
_parse_numbered_resources(content) ==
    LET Numbered(colon) ==
            Alt(<< <<In(Digits, 1, Inf), In({"."}, 0, 1)>>,
                   <<Lit(<<"R","e","s","o","u","r","c","e"," ">>), In(Digits, 1, Inf)>> \o
                        (IF colon THEN <<In({":"}, 0, 1)>> ELSE <<>>) >>)
        resource_pattern ==
            <<Lit(<<"*","*">>), Numbered(TRUE), In(Whitespace, 1, Inf),
              Open(1), Lazy(NotIn({"*"}, 1, Inf)), Close(1), Lit(<<"*","*">>),
              Opt(<<In(Whitespace, 1, Inf), Lit(<<"(">>), Opt(<<Lit(<<"T","y","p","e",":">>), In(Whitespace, 0, Inf)>>),
                    Open(2), NotIn({")"}, 1, Inf), Close(2), Lit(<<")">>)>>)>>
        matches == FindIter(resource_pattern, content, 1)
        Cand(match) ==
            LET title == Strip(Group(content, match, 1))
                resource_type == IF IsSet(match, 2) /\ Group(content, match, 2) # <<>>
                                 THEN Strip(Group(content, match, 2)) ELSE <<"R","e","s","o","u","r","c","e">>
                start_pos == match.e
                next_match == SearchFrom(<<Lit(<<"*","*">>), Numbered(FALSE)>>, content, start_pos)
                end_pos == IF next_match.ok THEN next_match.b ELSE Len(content) + 1
                resource_block == SubSeq(content, start_pos, end_pos - 1)
                url == _extract_url(resource_block)
                source == _extract_source(resource_block)
                description == _extract_description(resource_block)
            IN  [raised |-> url # <<>> /\ _contains_error_raises(url, title, description),
                 keep |-> url # <<>> /\ ~_contains_error(url, title, description),
                 resource |-> Resource(_normalize_type(resource_type), title,
                                       Or(source, <<"U","n","k","n","o","w","n">>), url, description)]
    IN  Kept([k \in 1..Len(matches) |-> Cand(matches[k])])

\* content[max(0, from - before) : min(len(content), to + after)], positions
\* from 1 and to exclusive
Around(content, from, to, margin) ==
    SubSeq(content, IF from - margin < 1 THEN 1 ELSE from - margin,
                    IF to - 1 + margin > Len(content) THEN Len(content) ELSE to - 1 + margin)

\* _parse_link_sections(content)
_parse_link_sections(content) ==
    LET link_pattern == <<Lit(<<"[">>), Open(1), NotIn({"]"}, 1, Inf), Close(1), Lit(<<"]","(">>),
                          Open(2), NotIn({")"}, 1, Inf), Close(2), Lit(<<")">>)>>
        matches == FindIter(link_pattern, content, 1)
        Cand(match) ==
            LET title == Strip(Group(content, match, 1))
                url == Strip(Group(content, match, 2))
                skip == \/ (url # <<>> /\ Head(url) = "#")
                        \/ Lower(title) \in {<<"b","a","c","k"," ","t","o"," ","t","o","p">>, <<"t","o","p">>, <<"h","o","m","e">>}
                context == Around(content, match.b, match.e, 200)
                source == _extract_source(context)
                description == _extract_description(context)
                inferred == _infer_type_from_url(url)
                resource_type == Or(inferred, _extract_type_from_context(context))
            IN  [raised |-> ~skip /\ _contains_error_raises(url, title, description),
                 keep |-> ~skip /\ ~_contains_error(url, title, description),
                 resource |-> Resource(resource_type, title, Or(source, <<"U","n","k","n","o","w","n">>), url,
                                       description)]
    IN  Kept([k \in 1..Len(matches) |-> Cand(matches[k])])

\* "seen = set(); for url in urls: if url not in seen: ..."
RECURSIVE Unique(_)
Unique(urls) ==
    IF urls = <<>> THEN <<>>
    ELSE LET init == Unique(SubSeq(urls, 1, Len(urls) - 1))
             last == urls[Len(urls)]
         IN  IF \E k \in 1..Len(init) : init[k] = last THEN init ELSE Append(init, last)

\* _parse_all_links(content)
_parse_all_links(content) ==
    LET url_pattern == HttpScheme \o <<NotIn(Whitespace \cup {")", "]", ",", ">"}, 1, Inf)>>
        found == FindIter(url_pattern, content, 1)
        unique_urls == Unique([k \in 1..Len(found) |-> Group0(content, found[k])])
        Cand(url) ==
            LET url_pos == Find(content, url)
                context == Around(content, url_pos, url_pos + Len(url), 100)
                title == _extract_title_from_context(context, url)
                source == _extract_source(context)
                resource_type == _infer_type_from_url(url)
            IN  [raised |-> _contains_error_raises(url, TitleOrEmpty(title), <<>>),
                 keep |-> ~_contains_error(url, TitleOrEmpty(title), <<>>),
                 resource |-> Resource(resource_type, Or(title, url),
                                       Or(source, _extract_domain(url)), url, NoneS)]
    IN  Kept([k \in 1..Len(unique_urls) |-> Cand(unique_urls[k])])

\* As excluded_domains, taking the entries as they are typed.
excluded_domains_AsTyped(excluded_sites) ==
    LET domains == Split(excluded_sites, ",")
    IN  {domains[k] : k \in {m \in 1..Len(domains) : Strip(domains[m]) # <<>>}}

\* "excluded_domains = [domain.strip().lower() for domain in
\*  excluded_sites.split(',') if domain.strip()]"
excluded_domains(excluded_sites) ==
    LET domains == Split(excluded_sites, ",")
    IN  {Lower(Strip(domains[k])) : k \in {m \in 1..Len(domains) : Strip(domains[m]) # <<>>}}

\* _filter_excluded_domains(resources, excluded_sites)
_filter_excluded_domains(resources, excluded_sites) ==
    IF excluded_domains(excluded_sites) = {} THEN resources
    ELSE SelectSeq(resources,
                   LAMBDA r : ~\E d \in excluded_domains(excluded_sites) :
                                    Contains(Lower(r.url), d))

\* The value of _extract_textbook_info when it returns None.
NoTextbook == [found |-> FALSE, title |-> NoneS, author |-> NoneS, source |-> NoneS]

TextbookInfo(title, author, source) ==
    [found |-> TRUE, title |-> title, author |-> author, source |-> source]

\* The section patterns of _extract_textbook_info, compiled with
\* re.IGNORECASE | re.DOTALL.
textbook_patterns ==
    LET AnyChars == NotIn({}, 0, Inf)
        Heading(name) ==
            <<In({"#"}, 1, Inf), LitI(name), In({":", "\n"}, 1, Inf), Open(1), Lazy(AnyChars),
              Close(1), Ahead(<<Alt(<< <<Lit(<<"\n","#">>)>>, <<End>> >>)>>)>>
        Line(label) ==
            label \o <<In(Whitespace, 0, Inf), Open(1), NotIn({"\n"}, 1, Inf), Close(1)>>
        NextLine(label) ==
            label \o <<In(Whitespace, 0, Inf), Lit(<<"\n">>), In(Whitespace, 0, Inf), Open(1),
                       NotIn({"\n"}, 1, Inf), Close(1)>>
        Plain == <<Alt(<< <<LitI(<<"T","e","x","t","b","o","o","k">>)>>, <<LitI(<<"T","e","x","t">>)>> >>), Lit(<<":">>)>>
    IN  << Heading(<<" ","T","e","x","t","b","o","o","k"," ","I","n","f","o","r","m","a","t","i","o","n">>), Heading(<<" ","C","o","u","r","s","e"," ","T","e","x","t","b","o","o","k">>),
           Heading(<<" ","O","f","f","i","c","i","a","l"," ","T","e","x","t","b","o","o","k">>),
           Line(<<LitI(<<"*","*","T","e","x","t","b","o","o","k",":","*","*">>)>>), Line(<<LitI(<<"*","*","T","e","x","t",":","*","*">>)>>),
           Line(<<LitI(<<"*","*","O","f","f","i","c","i","a","l"," ","T","e","x","t","b","o","o","k",":","*","*">>)>>),
           Line(Plain), NextLine(Plain),
           NextLine(<<Alt(<< <<LitI(<<"*","*","T","e","x","t","b","o","o","k",":","*","*">>)>>, <<LitI(<<"*","*","T","e","x","t",":","*","*">>)>> >>)>>) >>

\* ', '.join([p.strip() for p in parts])
JoinStripped(parts) == Join([k \in 1..Len(parts) |-> Strip(parts[k])], <<",", " ">>)

\* The "Author, Title" forms of a section that has a comma and no field
\* label: the value returned.
SimpleTextbook(section_text) ==
    LET by_match == Search(<<LitI(<<"b","y">>), In(Whitespace, 1, Inf), Open(1),
                             NotIn({".", "\n"}, 1, Inf), Close(1)>>, section_text)
        title_part == Strip(SubSeq(section_text, 1, by_match.b - 1))
        edition == Search(<<Lit(<<",">>), In(Whitespace, 0, Inf), In(Digits, 1, Inf),
                            Alt(<< <<Lit(<<"s","t">>)>>, <<Lit(<<"n","d">>)>>, <<Lit(<<"r","d">>)>>, <<Lit(<<"t","h">>)>> >>),
                            In(Whitespace, 1, Inf), Lit(<<"e","d">>), In({"."}, 0, 1), In({","}, 0, 1),
                            In(Whitespace, 0, Inf), End>>, title_part)
        without == IF edition.ok
                   THEN SubSeq(title_part, 1, edition.b - 1)
                            \o SubSeq(title_part, edition.e, Len(title_part))
                   ELSE title_part
        parts == Split(section_text, ",")
        first_part == Strip(parts[1])
        others == RStripChar(JoinStripped(Tail(parts)), ".")
    IN  IF by_match.ok
        THEN TextbookInfo(RStripChar(RStripChar(Strip(without), ","), "."),
                          Strip(Group(section_text, by_match, 1)), NoneS)
        ELSE IF Contains(first_part, <<":">>) \/ Len(first_part) > 30
        THEN TextbookInfo(first_part, others, NoneS)
        ELSE TextbookInfo(others, first_part, NoneS)

\* "(?:\*\*)?LABEL[:\s]+\*?\*?([^\n\*]+)" searched in a section; the stripped
\* group, or None
LabelledField(labels, section_text) ==
    LET m == Search(<<Opt(<<Lit(<<"*","*">>)>>), labels, In(Whitespace \cup {":"}, 1, Inf),
                      In({"*"}, 0, 1), In({"*"}, 0, 1), Open(1),
                      NotIn({"\n", "*"}, 1, Inf), Close(1)>>, section_text)
    IN  IF m.ok THEN Strip(Group(section_text, m, 1)) ELSE NoneS

\* _extract_textbook_info(content), from the k-th pattern on
RECURSIVE TextbookFrom(_, _)
TextbookFrom(content, k) ==
    IF k > Len(textbook_patterns) THEN NoTextbook
    ELSE LET match == Search(textbook_patterns[k], content)
             section_text == Strip(Group(content, match, 1))
             labelled == Search(<<Alt(<< <<LitI(<<"T","i","t","l","e">>)>>, <<LitI(<<"A","u","t","h","o","r">>)>>,
                                         <<LitI(<<"S","o","u","r","c","e">>)>> >>), Lit(<<":">>)>>, section_text)
             title == LabelledField(Alt(<< <<LitI(<<"T","i","t","l","e">>)>>, <<LitI(<<"B","o","o","k">>)>> >>), section_text)
             author == LabelledField(Alt(<< <<LitI(<<"A","u","t","h","o","r","s">>)>>, <<LitI(<<"A","u","t","h","o","r">>)>> >>),
                                     section_text)
             source == LabelledField(LitI(<<"S","o","u","r","c","e">>), section_text)
         IN  IF ~match.ok THEN TextbookFrom(content, k + 1)
             ELSE IF Contains(section_text, <<",">>) /\ ~labelled.ok
             THEN SimpleTextbook(section_text)
             ELSE IF Given(title) \/ Given(author) THEN TextbookInfo(title, author, source)
             ELSE TextbookFrom(content, k + 1)

_extract_textbook_info(content) == TextbookFrom(content, 1)

\* As Strategies, with the fallback that finds bare links tried first.
Strategies_LinksFirst == <<3, 2, 1>>

\* The order in which parse_markdown_to_resources tries _parse_numbered_resources
\* (1), _parse_link_sections (2) and _parse_all_links (3).
Strategies == <<1, 2, 3>>

\* The k-th strategy in the order of the source.
Strategy(k, content) ==
    CASE k = 1 -> _parse_numbered_resources(content)
      [] k = 2 -> _parse_link_sections(content)
      [] k = 3 -> _parse_all_links(content)

\* The strategies from the k-th on: the first that raises or finds resources
\* ends the search ("if not resources:" before the second and the third).
RECURSIVE Tried(_, _)
FirstOf(tried, content, k) ==
    IF tried.raised \/ tried.resources # <<>> \/ k = Len(Strategies) THEN tried
    ELSE Tried(content, k + 1)

Tried(content, k) == FirstOf(Strategy(Strategies[k], content), content, k)

\* The dictionary returned: the resources are filtered "if excluded_sites and
\* excluded_sites.strip()"; raised: a call that was made raised.
ParseResult(tried, excluded_sites, textbook_info) ==
    [raised |-> tried.raised,
     resources |-> IF Given(excluded_sites) /\ Strip(excluded_sites) # <<>>
                   THEN _filter_excluded_domains(tried.resources, excluded_sites)
                   ELSE tried.resources,
     textbook_info |-> textbook_info]

parse_markdown_to_resources(markdown_content, excluded_sites) ==
    ParseResult(Tried(markdown_content, 1), excluded_sites,
                _extract_textbook_info(markdown_content))

\* ---- The parser applied to chosen inputs -----------------------------------

MaxLines == 2    \* lines in a markdown text

\* The frame of one call of a parser function: the function (op), its
\* arguments and what it returned.
IdleMd ==
    [pc |-> "idle", op |-> "none", content |-> <<>>, excluded_sites |-> NoneS,
     fields |-> <<<<>>, <<>>, <<>>>>, resources |-> <<>>,
     result |-> [raised |-> FALSE, resources |-> <<>>, textbook_info |-> NoTextbook],
     flag |-> FALSE, filtered |-> <<>>]

\* Lines of markdown: numbered resources with a known and an unknown type, a
\* link field, a description reporting a page that could not be fetched, links
\* with and without a target, a sentence with a bare link, a heading, and
\* textbook lines.
Lines ==
    { <<"*","*","1","."," ","I","n","t","r","o","*","*"," ","(","T","y","p","e",":"," ","O","p","e","n"," ","T","e","x","t","b","o","o","k",")">>,
      <<"*","*","2","."," ","T","a","l","k","*","*"," ","(","r","a","d","i","o"," ","s","h","o","w",")">>,
      <<"-"," ","*","*","L","i","n","k",":","*","*"," ","h","t","t","p","s",":","/","/","x",".","o","r","g","/","a">>,
      <<"-"," ","*","*","W","h","a","t"," ","i","t"," ","c","o","v","e","r","s",":","*","*"," ","E","R","R","O","R",":"," ","C","o","u","l","d"," ","n","o","t"," ","f","e","t","c","h"," ","h","t","t","p","s",":","/","/","x",".","o","r","g","/","b">>,
      <<"[","T","i","t","l","e","]","("," ",")">>,
      <<"[","V","i","d","e","o","]","(","h","t","t","p","s",":","/","/","Y","o","u","T","u","b","e",".","c","o","m","/","v",")">>,
      <<"S","e","e"," ","h","t","t","p","s",":","/","/","o","c","w",".","m","i","t",".","e","d","u","/","c",","," ","a","n","d"," ","m","o","r","e">>,
      <<"#","#"," ","N","o","t","e","s">>,
      <<"T","e","x","t","b","o","o","k",":"," ",",">>,
      <<"T","e","x","t","b","o","o","k",":"," ","S","m","i","t","h",","," ","C","a","l","c","u","l","u","s">> }

\* The texts parsed: at most MaxLines lines, each line ended by a line break.
RECURSIVE Texts(_)
Texts(n) ==
    IF n = 0 THEN {<<>>}
    ELSE Texts(n - 1) \cup {t \o l \o <<"\n">> : t \in Texts(n - 1), l \in Lines}

\* The excluded_sites a request carries: none, blank, or a list.
ExcludedSites == {NoneS, <<" ">>, <<" ","Y","o","u","T","u","b","e",".","c","o","m"," ",","," ">>}

\* Arguments of _contains_error.
ErrorUrls == {<<>>, <<"h","t","t","p","s",":","/","/","e","x","a","m","p","l","e",".","c","o","m">>, <<"h","t","t","p","s",":","/","/","E","R","R","O","R",".","c","o","m">>}
ErrorTexts ==
    { <<>>, <<"V","a","l","i","d"," ","T","i","t","l","e">>, <<"e","r","r","o","r"," ","i","n"," ","t","i","t","l","e">>, <<"E","R","R","O","R",":"," ","F","a","i","l","e","d">>, <<"F","a","i","l","e","d"," ","r","e","q","u","e","s","t">>,
      <<"R","e","q","u","e","s","t"," ","f","a","i","l","u","r","e"," ","d","e","t","e","c","t","e","d">>, <<"C","o","u","l","d"," ","n","o","t"," ","l","o","a","d">>, <<"C","a","n","n","o","t"," ","a","c","c","e","s","s"," ","p","a","g","e">>,
      <<"R","e","q","u","e","s","t"," ","t","i","m","e","d"," ","o","u","t">> }

\* Arguments of _filter_excluded_domains: lists of at most MaxItems resources
\* and comma-separated lists of sites.
FilterUrls == {<<"h","t","t","p","s",":","/","/","o","c","w",".","M","I","T",".","e","d","u","/","c">>, <<"h","t","t","p","s",":","/","/","x",".","o","r","g","/","a">>, <<"h","t","t","p","s",":","/","/","y","o","u","t","u","b","e",".","c","o","m","/","v">>}

RECURSIVE ResourceLists(_)
ResourceLists(n) ==
    IF n = 0 THEN {<<>>}
    ELSE ResourceLists(n - 1) \cup
            {Append(rs, Resource(<<"W","e","b","s","i","t","e">>, <<"T">>, <<"U","n","k","n","o","w","n">>, u, NoneS)) :
                rs \in ResourceLists(n - 1), u \in FilterUrls}

FilterSites == {<<>>, <<" "," ">>, <<" ",","," ",",">>, <<"m","i","t">>, <<" ","M","I","T",".","e","d","u"," ",","," ","x",".","o","r","g">>, <<"y","o","u","t","u","b","e",".","c","o","m",",",",">>}

\* parse_markdown_to_resources(content, excluded_sites) is called ...
CallParse(content, excluded_sites) ==
    /\ md.pc = "idle"
    /\ md' = [IdleMd EXCEPT !.pc = "called", !.op = "parse", !.content = content,
                            !.excluded_sites = excluded_sites]
    /\ UNCHANGED <<ttl, report, api, probe, maint, agentsDoc, tasksDoc, now, store, call, putLog, budget,
                   jobs, worker>>

\* ... and returns.
Parse ==
    /\ md.pc = "called" /\ md.op = "parse"
    /\ md' = [md EXCEPT !.pc = "done",
                        !.result = parse_markdown_to_resources(md.content, md.excluded_sites)]
    /\ UNCHANGED <<ttl, report, api, probe, maint, agentsDoc, tasksDoc, now, store, call, putLog, budget,
                   jobs, worker>>

\* _contains_error(url, title, description) is called ...
CallContainsError(url, title, description) ==
    /\ md.pc = "idle"
    /\ md' = [IdleMd EXCEPT !.pc = "called", !.op = "contains_error",
                            !.fields = <<url, title, description>>]
    /\ UNCHANGED <<ttl, report, api, probe, maint, agentsDoc, tasksDoc, now, store, call, putLog, budget,
                   jobs, worker>>

\* ... and returns.
ContainsError ==
    /\ md.pc = "called" /\ md.op = "contains_error"
    /\ md' = [md EXCEPT !.pc = "done",
                        !.flag = _contains_error(md.fields[1], md.fields[2], md.fields[3])]
    /\ UNCHANGED <<ttl, report, api, probe, maint, agentsDoc, tasksDoc, now, store, call, putLog, budget,
                   jobs, worker>>

\* _filter_excluded_domains(resources, excluded_sites) is called ...
CallFilter(resources, excluded_sites) ==
    /\ md.pc = "idle"
    /\ md' = [IdleMd EXCEPT !.pc = "called", !.op = "filter", !.resources = resources,
                            !.excluded_sites = excluded_sites]
    /\ UNCHANGED <<ttl, report, api, probe, maint, agentsDoc, tasksDoc, now, store, call, putLog, budget,
                   jobs, worker>>

\* ... and returns.
Filter ==
    /\ md.pc = "called" /\ md.op = "filter"
    /\ md' = [md EXCEPT !.pc = "done",
                        !.filtered = _filter_excluded_domains(md.resources, md.excluded_sites)]
    /\ UNCHANGED <<ttl, report, api, probe, maint, agentsDoc, tasksDoc, now, store, call, putLog, budget,
                   jobs, worker>>

NextParser ==
    \/ \E content \in Texts(MaxLines), x \in ExcludedSites : CallParse(content, x)
    \/ Parse
    \/ \E url \in ErrorUrls, title \in ErrorTexts, description \in ErrorTexts \cup {NoneS} :
            CallContainsError(url, title, description)
    \/ ContainsError
    \/ \E rs \in ResourceLists(MaxItems), x \in FilterSites : CallFilter(rs, x)
    \/ Filter

SpecParser == InitJobs /\ [][NextParser]_vars


(***************************************************************************)
(* Claims about the cache operations.                                      *)
(***************************************************************************)
GetDone(c) == call[c].op = "get" /\ call[c].pc = "done"

\* C1: round trip.  A get (not bypassed, no storage error) that selects while
\* the table holds the row a put wrote for the same inputs, type and
\* fingerprint, and checks it within the TTL, returns that put's results.
C1_RoundTrip ==
    \A c \in Callers :
        LET f == call[c] IN
        ( /\ GetDone(c) /\ ~f.force_refresh /\ ~f.failed
          /\ f.expect # {}
          /\ \A r \in f.expect :
                f.t - ParseCachedAt(r.cached_at) <= TtlDays(f.cache_type) )
        => \E r \in f.expect : f.ret = r.results

C1_Witness ==
    \E c \in Callers :
        /\ GetDone(c) /\ call[c].path = "hit"
        /\ call[c].expect # {}
        /\ call[c].ret = PayloadOf(1)
        /\ call[c].t = RESOURCE_RESULTS_TTL_DAYS

\* C2: fingerprint invalidation.  Whatever a get returns comes from the row it
\* fetched, and that row's stored config_hash is the fingerprint the get
\* computed; a row a put stored under another fingerprint is never returned.
C2_FingerprintInvalidation ==
    \A c \in Callers :
        LET f == call[c] IN
        (GetDone(c) /\ f.ret # None)
        => /\ "config_hash" \in f.entry.cols
           /\ f.entry.config_hash = f.config_hash
           /\ f.ret = f.entry.results
           /\ \A r \in f.stale : f.ret # r.results

C2_Witness ==
    \E c \in Callers :
        /\ GetDone(c) /\ ~call[c].force_refresh /\ ~call[c].failed
        /\ call[c].ret = None
        /\ call[c].stale # {}
        /\ call[c].stale \subseteq store
        /\ \A r \in call[c].stale :
                call[c].t - ParseCachedAt(r.cached_at) <= TtlDays(call[c].cache_type)

\* C3 as stated: a get that finds the fetched entry older than the TTL returns
\* None and the entry is no longer in the table when the call is over.
C3_ExpiredEntryRemoved ==
    \A c \in Callers :
        (GetDone(c) /\ call[c].path = "expired")
        => call[c].ret = None /\ call[c].entry \notin store

\* C3 amended: such a get returns None, and the entry is no longer in the
\* table unless the delete itself failed with a storage error.
C3_ExpiredEntryRemovedUnlessDeleteFails ==
    \A c \in Callers :
        (GetDone(c) /\ call[c].path = "expired")
        => /\ call[c].ret = None
           /\ ~call[c].failed => \A r \in store : r.cache_key # call[c].cache_key
                                                  \/ r # call[c].entry

C3_Witness ==
    \E c \in Callers :
        /\ GetDone(c) /\ call[c].path = "expired" /\ ~call[c].failed
        /\ call[c].entry \in putLog
        /\ call[c].entry \notin store

C8_UpsertReplaces ==
    /\ \A r1, r2 \in store : r1.cache_key = r2.cache_key => r1 = r2
    /\ \A r \in store : r \in PreRows \/ r \in putLog

C8_Witness ==
    \E c, d \in Callers :
        /\ c # d
        /\ call[c].op = "set" /\ call[c].pc = "done" /\ ~call[c].failed
        /\ call[d].op = "set" /\ call[d].pc = "done" /\ ~call[d].failed
        /\ call[c].cache_key = call[d].cache_key
        /\ call[c].entry # call[d].entry
        /\ call[c].entry \in store

\* The step of caller c that ends its delete or upsert.
Writes(c) == call[c].pc \in {"delete", "upsert"} /\ call'[c].pc = "done"

\* C9: cache-type isolation.  Every row a step creates or removes has the
\* cache_type of the call that takes the step, and a get returns only from a
\* row of its own cache_type.
C9_TypeIsolation ==
    /\ [](\A c \in Callers :
            (GetDone(c) /\ call[c].ret # None)
            => call[c].entry.cache_type = call[c].cache_type)
    /\ [][\A r \in (store \ store') \cup (store' \ store) :
            "cache_type" \in r.cols
            => \E c \in Callers : Writes(c) /\ r.cache_type = call[c].cache_type]_vars

C9_Witness ==
    \E r1, r2 \in store \cap putLog :
        /\ r1.inputs = r2.inputs
        /\ r1.config_hash = r2.config_hash
        /\ r1.cache_type = S_analysis
        /\ r2.cache_type = S_full
        /\ r1.cached_at.t < r2.cached_at.t

\* C10 as stated: after a get for inputs I (not bypassed, no storage error),
\* no row that a put stored for I and the same type under another fingerprint
\* is left in the table.
C10_StaleEntryDeletedByGet ==
    \A c \in Callers :
        (GetDone(c) /\ ~call[c].force_refresh /\ ~call[c].failed)
        => \A r \in call[c].stale : r \notin store

\* C10 amended: such a get never returns that row's results and never
\* deletes it: the row lies under a key that embeds the other fingerprint,
\* and the steps of a get remove rows under its own key only.
C10_StaleEntryLeftByGet ==
    /\ [](\A c \in Callers :
            GetDone(c) => \A r \in call[c].stale : call[c].ret # r.results)
    /\ [][\A c \in Callers :
            (call[c].op = "get" /\ call'[c] # call[c])
            => /\ \A r \in StaleRowsFor(call'[c], store) : r \in store'
               /\ \A r \in store \ store' : r.cache_key = call[c].cache_key]_vars

C10_Witness ==
    \E c \in Callers :
        /\ GetDone(c) /\ ~call[c].force_refresh /\ ~call[c].failed
        /\ call[c].path = "miss"
        /\ call[c].stale # {}
        /\ call[c].stale \subseteq store

(***************************************************************************)
(* Claims about purge and stats.                                           *)
(***************************************************************************)
\* The purge call has returned without a storage error, and since it was
\* called no put was applied and the config documents are as it read them.
PurgeDoneQuiet ==
    /\ maint["purge"].pc = "done"
    /\ ~maint["purge"].failed
    /\ putLog = maint["purge"].plog
    /\ _compute_config_hash = maint["purge"].config_hash

\* C11: after such a purge no row whose stored config_hash differs from the
\* current fingerprint remains, and every row that was there with the current
\* fingerprint is still there, unchanged.
C11_PurgePostcondition ==
    PurgeDoneQuiet
    => /\ \A r \in WithHash(store) : r.config_hash = _compute_config_hash
       /\ \A r \in WithHash(maint["purge"].snap) :
              r.config_hash = _compute_config_hash => r \in store

C11_Witness ==
    /\ PurgeDoneQuiet
    /\ maint["purge"].ret.count = 1
    /\ \E r \in WithHash(maint["purge"].snap) :
            r.config_hash # _compute_config_hash /\ r \notin store
    /\ \E r \in maint["purge"].snap \cap putLog :
            r.config_hash = _compute_config_hash /\ r \in store

\* get_cache_stats has returned its counts.
StatsDone == maint["stats"].pc = "done" /\ maint["stats"].ret.kind = "stats"

\* C12 as stated: every stats result has total >= valid >= 0 and
\* stale = total - valid >= 0, also with puts and deletes running between the
\* two count queries.
C12_StatsConsistent ==
    StatsDone =>
        LET r == maint["stats"].ret IN
        /\ r.total_entries >= r.valid_entries /\ r.valid_entries >= 0
        /\ r.stale_entries = r.total_entries - r.valid_entries /\ r.stale_entries >= 0

\* C12 amended: no step of get_cache_stats changes the table; every stats
\* result has total >= 0, valid >= 0 and stale = total - valid; and
\* total >= valid (stale >= 0) when the table did not change between the two
\* count queries.
C12_StatsReadOnlyConsistentWhenStill ==
    /\ [](StatsDone =>
            LET r == maint["stats"].ret IN
            /\ r.total_entries >= 0 /\ r.valid_entries >= 0
            /\ r.stale_entries = r.total_entries - r.valid_entries
            /\ ~maint["stats"].moved =>
                    r.total_entries >= r.valid_entries /\ r.stale_entries >= 0)
    /\ [][maint'["stats"] # maint["stats"] => store' = store]_vars

C12_Witness ==
    /\ StatsDone /\ ~maint["stats"].moved
    /\ maint["stats"].ret.total_entries = 2
    /\ maint["stats"].ret.valid_entries = 1
    /\ maint["stats"].ret.stale_entries = 1

(***************************************************************************)
(* Claims about keys and fingerprints.                                     *)
(***************************************************************************)
\* C13: key order-independence.  Two input sets that differ only by a
\* permutation of the topics or of the resource types and by whitespace
\* around the items get the same cache key under the same fingerprint.
C13_KeyOrderIndependent ==
    (probe.pc = "done" /\ probe.kind = "reordered") => probe.ka = probe.kb

C13_Witness ==
    /\ probe.pc = "done" /\ probe.kind = "reordered"
    /\ probe.a.topics_list = <<"b", " ", ",", "a", " ", "b", " ">>
    /\ probe.b.topics_list = <<"\t", " ", "a", " ", "b", ",", "\t", " ", "b">>
    /\ probe.ka = probe.kb

\* C14: key fingerprint sensitivity.  The keys built for one input set with
\* two different config hashes are different.
C14_KeyDependsOnFingerprint ==
    (probe.pc = "done" /\ probe.kind = "two_hashes") => probe.ka # probe.kb

C14_Witness ==
    /\ probe.pc = "done" /\ probe.kind = "two_hashes"
    /\ probe.a.topics_list # <<>> /\ probe.a.isbn # <<>>
    /\ probe.ha = ConfigHashOf(File(<<"a">>), File(<<"b">>))
    /\ probe.hb = ConfigHashOf(File(<<"a">>), NotFound)
    /\ probe.ka # probe.kb

\* C15: fingerprint identity.  Two fingerprints are equal if and only if the
\* agent documents are byte-identical and the task documents are
\* byte-identical.
C15_FingerprintIdentity ==
    (probe.pc = "done" /\ probe.kind = "two_configs")
    => (probe.fa = probe.fb <=> probe.da = probe.db)

(***************************************************************************)
(* Claims about job execution and the job endpoints.                       *)
(***************************************************************************)
\* C16: cancellation is final.  Once a job's status is 'cancelled' no step
\* writes another status for it.
C16_CancelledIsFinal ==
    [][\A j \in Callers :
        jobs[j].status = "cancelled" => jobs'[j].status = "cancelled"]_vars

Provided(req, f) == Strip(req[f]) # <<>>

\* None of the identifying inputs of a request is provided.
NoneProvided(req) ==
    /\ \A f \in RequestFields \ {"book_title", "book_author"} : ~Provided(req, f)
    /\ ~(Provided(req, "book_title") /\ Provided(req, "book_author"))

C19_SubmitValidation ==
    api.last.job # 0 =>
        LET a == api.of[api.last.job] IN
        /\ (a.submit = 400 /\ ~a.created) <=> NoneProvided(api.last.req)
        /\ ~NoneProvided(api.last.req) =>
                a.created /\ a.submit = 200 /\ a.reported = "pending"

\* C20: a cancel request that found the job already completed is answered
\* with HTTP 200.
C20_CancelCompletedSucceeds ==
    \A j \in Callers : api.of[j].found = "completed" => api.of[j].cancel = 200

\* ---- Claims about the parser and the origin check ------------------------

\* C21: a POST (submit or cancel) whose Origin header is missing or is not an
\* allowed origin is answered with HTTP 403 and creates no job and changes no
\* job status, whatever its other headers are.
C21_OriginValidation ==
    [][ LET origin == api'.post.headers.origin IN
        (origin = <<>> \/ RStripSlash(origin) \notin ALLOWED_ORIGINS) =>
            /\ api'.post.code = 403
            /\ jobs' = jobs
            /\ \A j \in Callers : api'.of[j].created = api.of[j].created ]_vars

(***************************************************************************)
(* Claims about the markdown parser.                                       *)
(***************************************************************************)

\* parse_markdown_to_resources has returned.
ParseDone == md.pc = "done" /\ md.op = "parse"

\* The call filters its resources by excluded_sites.
Filtering == Given(md.excluded_sites) /\ Strip(md.excluded_sites) # <<>>

\* C22: the resources parse produces, before the domain filter, are the
\* output of the first of numbered-resource, link-section and bare-link
\* parsing whose output is not empty, and are empty only if all three are.
C22_StrategyOrder ==
    ParseDone /\ ~md.result.raised =>
        LET numbered == _parse_numbered_resources(md.content).resources
            sections == _parse_link_sections(md.content).resources
            links == _parse_all_links(md.content).resources
            first == IF numbered # <<>> THEN numbered
                     ELSE IF sections # <<>> THEN sections ELSE links
        IN  /\ ~Filtering => md.result.resources = first
            /\ Filtering =>
                    md.result.resources = _filter_excluded_domains(first, md.excluded_sites)
            /\ (~Filtering /\ md.result.resources = <<>>) =>
                    numbered = <<>> /\ sections = <<>> /\ links = <<>>

\* C22 witness: a text in which numbered-resource and link-section parsing both
\* find a resource, and not the same one, was parsed without a filter.
C22_Witness ==
    /\ ParseDone /\ ~Filtering
    /\ _parse_numbered_resources(md.content).resources # <<>>
    /\ _parse_link_sections(md.content).resources # <<>>
    /\ _parse_link_sections(md.content).resources #
            _parse_numbered_resources(md.content).resources
    /\ md.result.resources = _parse_numbered_resources(md.content).resources

\* The failure phrases, in lower case.
FailurePhrases ==
    { <<"e","r","r","o","r",":">>, <<"c","o","u","l","d"," ","n","o","t"," ","f","e","t","c","h">>, <<"f","a","i","l","e","d"," ","t","o">>, <<"h","t","t","p"," ","e","r","r","o","r">>, <<"t","i","m","e","d"," ","o","u","t">> }

\* A field of a resource contains a failure phrase, whatever the case.
HasFailurePhrase(field) ==
    Given(field) /\ \E phrase \in FailurePhrases : Contains(Lower(field), phrase)

\* C23: no resource returned by parse has a url, title or description that
\* contains, case-insensitively, a failure phrase.
C23_NoErrorMarkers ==
    ParseDone /\ ~md.result.raised =>
        \A k \in 1..Len(md.result.resources) :
            LET r == md.result.resources[k]
            IN  ~HasFailurePhrase(r.url) /\ ~HasFailurePhrase(r.title)
                    /\ ~HasFailurePhrase(r.description)

\* C23 witness: a text reporting a failed fetch of one page and linking to
\* another was parsed, and resources were returned.
C23_Witness ==
    /\ ParseDone /\ ~md.result.raised
    /\ HasFailurePhrase(md.content)
    /\ Contains(md.content, <<"h","t","t","p","s",":","/","/","x",".","o","r","g","/","b">>)
    /\ md.result.resources # <<>>

\* _contains_error has returned.
ContainsErrorDone == md.pc = "done" /\ md.op = "contains_error"

\* The words of test_contains_error_patterns, in lower case.
ErrorWords == { <<"e","r","r","o","r">>, <<"f","a","i","l","e","d">>, <<"f","a","i","l","u","r","e">>, <<"c","o","u","l","d"," ","n","o","t">>, <<"c","a","n","n","o","t">> }

\* A field contains one of the words, whatever the case.
HasErrorWord(field) ==
    Given(field) /\ \E word \in ErrorWords : Contains(Lower(field), word)

\* C24: _contains_error(url, title, description) is true exactly when one of
\* the three fields contains, case-insensitively, 'error', 'failed',
\* 'failure', 'could not' or 'cannot'.
C24_ContainsErrorWords ==
    ContainsErrorDone =>
        (md.flag <=> \E f \in 1..3 : HasErrorWord(md.fields[f]))

\* C25: every resource returned by parse has a non-empty url.
C25_UrlNonEmpty ==
    ParseDone /\ ~md.result.raised =>
        \A k \in 1..Len(md.result.resources) : md.result.resources[k].url # <<>>

\* The categories the specification lists.
ClosedTypes ==
    { <<"T","e","x","t","b","o","o","k">>, <<"V","i","d","e","o">>, <<"C","o","u","r","s","e">>, <<"N","o","t","e","s">>, <<"T","u","t","o","r","i","a","l">>, <<"P","D","F">>, <<"W","e","b","s","i","t","e">>,
      <<"R","e","s","o","u","r","c","e">> }

\* C26 as stated: every resource returned by parse has a type in the closed
\* set of categories.
C26_TypeClosed ==
    ParseDone /\ ~md.result.raised =>
        \A k \in 1..Len(md.result.resources) : md.result.resources[k].type \in ClosedTypes

\* C26, amended: every resource returned by parse has a type in the closed set
\* of categories, or a type that names none of the known categories and has
\* every word capitalised.
C26_TypeClosedOrTitled ==
    ParseDone /\ ~md.result.raised =>
        \A k \in 1..Len(md.result.resources) :
            LET type == md.result.resources[k].type
            IN  \/ type \in ClosedTypes
                \/ /\ type = Title(type)
                   /\ \A m \in 1..Len(type_map) : ~Contains(Lower(type), type_map[m][1])

\* C26 witness: a numbered resource annotated "(radio show)" was returned with
\* the type "Radio Show".
C26_Witness ==
    /\ ParseDone /\ ~md.result.raised
    /\ Contains(md.content, <<"(","r","a","d","i","o"," ","s","h","o","w",")">>)
    /\ \E k \in 1..Len(md.result.resources) : md.result.resources[k].type = <<"R","a","d","i","o"," ","S","h","o","w">>

\* _filter_excluded_domains has returned.
FilterDone == md.pc = "done" /\ md.op = "filter"

\* The entries of a comma-separated list: the stretches without a comma that
\* reach from the start or a comma to a comma or the end, trimmed and
\* lower-cased, the empty ones left out.
CsvEntries(csv) ==
    LET Bounded(a, b) ==
            /\ \A k \in a..b : csv[k] # ","
            /\ (a = 1 \/ csv[a - 1] = ",")
            /\ (b = Len(csv) \/ csv[b + 1] = ",")
        stretches == {SubSeq(csv, x[1], x[2]) :
                        x \in {y \in (1..Len(csv)) \X (1..Len(csv)) :
                                    y[1] <= y[2] /\ Bounded(y[1], y[2])}}
    IN  {Lower(Strip(e)) : e \in {x \in stretches : Strip(x) # <<>>}}

\* The positions of the resources whose lower-cased url contains no entry.
KeptPositions(resources, csv) ==
    {k \in 1..Len(resources) :
        \A e \in CsvEntries(csv) : ~Contains(Lower(resources[k].url), e)}

\* C27: the output of _filter_excluded_domains(resources, csv) is the
\* subsequence of resources, in their order, whose lower-cased url contains
\* none of the trimmed, lower-cased, non-empty entries of csv; with no such
\* entry the output is the input.
C27_DomainFilter ==
    FilterDone =>
        LET keep == KeptPositions(md.resources, md.excluded_sites)
        IN  /\ Len(md.filtered) = Cardinality(keep)
            /\ \A k \in keep :
                    md.filtered[Cardinality({m \in keep : m <= k})] = md.resources[k]
            /\ CsvEntries(md.excluded_sites) = {} => md.filtered = md.resources

\* C27 witness: with the list " MIT.edu , x.org" the filter removed the first
\* of two resources, a page of ocw.MIT.edu, and kept the second.
C27_Witness ==
    /\ FilterDone
    /\ md.excluded_sites = <<" ","M","I","T",".","e","d","u"," ",","," ","x",".","o","r","g">>
    /\ Len(md.resources) = 2
    /\ md.resources[1].url = <<"h","t","t","p","s",":","/","/","o","c","w",".","M","I","T",".","e","d","u","/","c">>
    /\ md.filtered = <<md.resources[2]>>

\* C28: parse_markdown_to_resources returns for every text without raising;
\* for the empty text the resources are empty and textbook_info is unset.
C28_ParseTotal ==
    ParseDone =>
        /\ ~md.result.raised
        /\ md.content = <<>> =>
                md.result.resources = <<>> /\ ~md.result.textbook_info.found

\* C28 witness: a text whose only link is a bare one with no title before it
\* was parsed, and the resource returned has the url as its title.
C28_Witness ==
    /\ ParseDone /\ ~md.result.raised
    /\ _extract_title_from_context(md.content, <<"h","t","t","p","s",":","/","/","o","c","w",".","m","i","t",".","e","d","u","/","c">>) = NoneS
    /\ \E k \in 1..Len(md.result.resources) :
            /\ md.result.resources[k].url = <<"h","t","t","p","s",":","/","/","o","c","w",".","m","i","t",".","e","d","u","/","c">>
            /\ md.result.resources[k].title = md.result.resources[k].url

\* C29: when _extract_textbook_info returns a record and not None, its title
\* or its author is a non-empty string.
C29_TextbookResolved ==
    ParseDone /\ ~md.result.raised /\ md.result.textbook_info.found =>
        Given(md.result.textbook_info.title) \/ Given(md.result.textbook_info.author)

(***************************************************************************)
(* A claim about concurrent cache calls.                                   *)
(***************************************************************************)

\* Call g is a get that found the entry it read expired, call p a put for the
\* same key that ran while g was running, both have returned normally, and
\* the entry p wrote is still fresh.
ExpiredReadAndWrite(g, p) ==
    /\ call[g].op = "get" /\ call[g].pc = "done" /\ call[g].path = "expired"
    /\ call[p].op = "set" /\ call[p].pc = "done"
    /\ ~call[g].failed /\ ~call[p].failed
    /\ call[p].cache_key = call[g].cache_key
    /\ call[g].entry # call[p].entry
    /\ ~Expired(now - ParseCachedAt(call[p].entry.cached_at), TtlDays(call[p].cache_type))

\* C30: when a get that has read an expired entry for a key interleaves with a
\* put of a fresh entry for that key, the fresh entry is in the store after
\* both have returned.
C30_FreshWriteSurvives ==
    \A g \in Callers, p \in Callers :
        ExpiredReadAndWrite(g, p) => call[p].entry \in store


(***************************************************************************)
(* Claims about concurrent jobs, retries and the job record.               *)
(***************************************************************************)
\* The lookup of job j was made without bypass and returned nothing.
Missed(j) ==
    /\ worker[j].pc \notin {"idle", "start", "set_running", "lookup", "wait_get", "handler"}
    /\ worker[j].exc = "none"
    /\ ~worker[j].bypass
    /\ worker[j].cached = None

\* Job j has invoked the agent pipeline.
Invoked(j) == worker[j].crew > 0

\* The pipeline of job j has returned a report that is not an error report.
Reported(j) == worker[j].output \in {"report_textbook", "report_plain"}

\* Both lookups of two concurrent jobs missed and both invoked the pipeline.
BothMissedBothInvoked(j, k) ==
    /\ j # k
    /\ Missed(j) /\ Missed(k)
    /\ Invoked(j) /\ Invoked(k)

\* C31: when two concurrent jobs for the same inputs both missed the cache and
\* both invoked the pipeline, each job whose own pipeline returned a report
\* and that was not cancelled ends 'completed' with the resources parsed from
\* its own pipeline's report.
C31_BothCompleteWithOwnResults ==
    \A j, k \in Callers :
        ( /\ BothMissedBothInvoked(j, k)
          /\ Reported(j)
          /\ api.of[j].cancel = 0
          /\ worker[j].pc = "exit" )
        => /\ jobs[j].status = "completed"
           /\ jobs[j].results = ResourcesOf([by |-> j, kind |-> worker[j].output])

\* The TTL the configuration holds for the type of a call.
OwnTtl(f) ==
    IF f.cache_type = S_analysis THEN ttl.course_analysis ELSE ttl.resource_results

\* C32: a get whose type's TTL is 0 (no expiration) never takes the expiry
\* path, however old the entry is; and a get takes the expiry path exactly
\* when the entry's age exceeds the TTL of its own type: the analysis TTL for
\* 'analysis', the full-results TTL for every other type.
C32_NoExpirationOwnTtl ==
    \A c \in Callers :
        LET f == call[c] IN
        (f.op = "get" /\ f.path \in {"expired", "stale", "hit", "malformed"})
        => /\ OwnTtl(f) = 0 => f.path \in {"stale", "hit"}
           /\ f.path = "expired"
                <=> (OwnTtl(f) # 0 /\ f.t - ParseCachedAt(f.entry.cached_at) > OwnTtl(f))

C32_Witness ==
    \E c, d \in Callers :
        /\ GetDone(c) /\ call[c].path = "hit" /\ call[c].cache_type = S_analysis
        /\ ttl.course_analysis = 0 /\ ttl.resource_results = RESOURCE_RESULTS_TTL_DAYS
        /\ call[c].t - ParseCachedAt(call[c].entry.cached_at) > COURSE_ANALYSIS_TTL_DAYS
        /\ call[c].ret = PayloadOf(1)

\* C33: the count clear_cache_for_config_change returns is the number of
\* entries the call removed from the table, also when a storage error ends
\* the call after some deletions.
C33_PurgeCountExact ==
    maint["purge"].pc = "done" => maint["purge"].ret.count = maint["purge"].removed

\* C34: 'failed' is terminal.  Once a job's status is 'failed' no step, a
\* retry of the Celery task included, writes 'running' or 'completed' for it.
C34_FailedIsTerminal ==
    [][\A j \in Callers :
        jobs[j].status = "failed" => jobs'[j].status \notin {"running", "completed"}]_vars

\* C35: run_crew_task_sync reports failure as a value.  A call in which a
\* step of the try block raised has marked the job failed and has returned; it
\* has not raised.
C35_SyncFailureIsValue ==
    \A j \in Callers :
        (worker[j].runner = "sync" /\ worker[j].pc = "exit" /\ worker[j].exc # "none")
        => worker[j].outcome = "returned"

\* Job j has called set_cached_analysis.
HasPut(j) == worker[j].runner # "none" /\ call[j].op = "set"

\* C36: a job calls the cache put only if its own lookup returned nothing and
\* its own pipeline returned a report with a textbook section; a job whose
\* lookup hit, whose pipeline returned an 'ERROR:' report or whose pipeline
\* raised makes no put.
C36_PutOnlyAfterFreshAnalysis ==
    \A j \in Callers :
        HasPut(j) => /\ worker[j].cached = None
                     /\ worker[j].output = "report_textbook"
                     /\ worker[j].exc = "none"

\* Two input sets were picked and their keys computed.
TwoInputsDone == probe.pc = "done" /\ probe.kind = "two_inputs"

\* The identifying fields of the inputs of a job, as the submit endpoint
\* validates them.
RequestOf(inputs) ==
    [f \in RequestFields |-> IF f \in DOMAIN inputs THEN inputs[f] ELSE <<>>]

\* C37: no cross-request cache sharing.  Two requests whose inputs differ in
\* a field, for example only in course_name with no URL, book or ISBN given,
\* never get the same cache key, so that a job is served only an entry stored
\* for the same inputs.
C37_DifferentInputsDifferentKeys ==
    ( /\ TwoInputsDone
      /\ validate_crew_inputs(RequestOf(probe.a))
      /\ validate_crew_inputs(RequestOf(probe.b))
      /\ probe.a # probe.b )
    => probe.ka # probe.kb

\* The values of the keyed fields: the URLs, the title/author pair when both
\* are given, the ISBN, and the normalized topics and resource types.
KeyedFields(inputs) ==
    << inputs.course_url, inputs.book_url,
       IF inputs.book_title # <<>> /\ inputs.book_author # <<>>
       THEN <<inputs.book_title, inputs.book_author>> ELSE <<>>,
       inputs.isbn,
       Sorted(StripNonEmpty(Split(inputs.topics_list, ","))),
       Sorted(StripNonEmpty(inputs.desired_resource_types)) >>

\* C38: key-string injectivity.  Under one fingerprint, two input sets that
\* differ in the value of a keyed field have different key strings, also when
\* the values hold '|', ':' or ','.
C38_KeyStringInjective ==
    (TwoInputsDone /\ KeyedFields(probe.a) # KeyedFields(probe.b)) => probe.sa # probe.sb

\* C39: job record consistency.  In every reachable state a job with status
\* 'completed' has a results list and no error, and completed_at is set
\* exactly when the status is completed, failed or cancelled.
C39_JobRecordConsistent ==
    \A j \in DOMAIN jobs :
        /\ jobs[j].status = "completed" =>
               (jobs[j].results # None /\ jobs[j].error = None)
        /\ (jobs[j].completed_at # None) <=> (jobs[j].status \in FinalStatuses)

====
